---- MODULE Spec2Model ----
(***************************************************************************)
(* Model of the FH5 tuning engine (src/src/tuner/engine.ts).               *)
(* The older rule-based tuner (src/src/utils/tuner.js) has a section.      *)
(*                                                                         *)
(* Number representation (TLA+ has integers only):                         *)
(*   final_drive, gear_ratios, camber_*, toe_*, caster, turbo_map,         *)
(*   front_diff, rear_diff ............. hundredths (3.50 is 350)          *)
(*   damping_* .......................... tenths                           *)
(*   car.gears .......................... tenths (a 6-speed is 60)         *)
(*   car.weight_distribution_front ...... hundredths (0.54 is 54)          *)
(*   every other number ................. units                            *)
(* An optional value is <<>> when absent/undefined and <<v>> when present. *)
(* A JavaScript string that the engine inspects character by character     *)
(* (trim, regular expressions, includes, Number) is a sequence of          *)
(* one-character strings.                                                  *)
(***************************************************************************)
EXTENDS Integers, Sequences, FiniteSets, TLC

VARIABLES car, upgrades, tuneType, weather, tune, args, prev, TUNE_PRESETS, legacy

vars == <<car, upgrades, tuneType, weather, tune, args, prev, TUNE_PRESETS, legacy>>

None == <<>>
Some(v) == <<v>>

-----------------------------------------------------------------------------
(* Strings *)

WhiteSpace == {" ", "\t"}

Digits == <<"0", "1", "2", "3", "4", "5", "6", "7", "8", "9">>

UpperAlpha == <<"A","B","C","D","E","F","G","H","I","J","K","L","M","N","O","P","Q","R","S","T","U","V","W","X","Y","Z">>

LowerAlpha == <<"a","b","c","d","e","f","g","h","i","j","k","l","m","n","o","p","q","r","s","t","u","v","w","x","y","z">>

IsDigit(c) == \E i \in 1..10 : Digits[i] = c

DigitVal(c) == (CHOOSE i \in 1..10 : Digits[i] = c) - 1

LowerOf == [u \in {UpperAlpha[i] : i \in 1..26} |-> LowerAlpha[CHOOSE i \in 1..26 : UpperAlpha[i] = u]]

LowerChar(c) == IF c \in DOMAIN LowerOf THEN LowerOf[c] ELSE c

ToLowerCase(s) == [i \in 1..Len(s) |-> LowerChar(s[i])]

RECURSIVE TrimStart(_)
TrimStart(s) == IF s # <<>> /\ Head(s) \in WhiteSpace THEN TrimStart(Tail(s)) ELSE s

RECURSIVE TrimEnd(_)
TrimEnd(s) == IF s # <<>> /\ s[Len(s)] \in WhiteSpace THEN TrimEnd(SubSeq(s, 1, Len(s) - 1)) ELSE s

Trim(s) == TrimEnd(TrimStart(s))

\* s has the characters of p at positions i .. i+Len(p)-1
StartsWithAt(s, i, p) == i + Len(p) - 1 <= Len(s) /\ \A k \in 1..Len(p) : s[i + k - 1] = p[k]

Includes(s, p) == \E i \in 1..(Len(s) + 1) : StartsWithAt(s, i, p)

\* first position >= i of s that holds no white space (Len(s)+1 when none)
RECURSIVE SkipSpace(_, _)
SkipSpace(s, i) == IF i <= Len(s) /\ s[i] \in WhiteSpace THEN SkipSpace(s, i + 1) ELSE i

\* first position >= i of s that holds no digit
RECURSIVE SkipDigits(_, _)
SkipDigits(s, i) == IF i <= Len(s) /\ IsDigit(s[i]) THEN SkipDigits(s, i + 1) ELSE i

\* value of the digit string s[i..j-1]
RECURSIVE DigitsValue(_, _, _)
DigitsValue(s, i, j) == IF j <= i THEN 0 ELSE DigitsValue(s, i, j - 1) * 10 + DigitVal(s[j - 1])

-----------------------------------------------------------------------------
(* Upgrade selection: a function from <<section, part>> to the selected    *)
(* option; an absent key is an unset part.                                 *)

NoUpgrades == <<>>

Sel(section, part, value) == [k \in {<<section, part>>} |-> value]

HasUpgrade(u, section, part) == <<section, part>> \in DOMAIN u

\* upgrades?.[section]?.[part] as an optional raw value
RawUpgrade(u, section, part) == IF HasUpgrade(u, section, part) THEN Some(u[<<section, part>>]) ELSE None

getUpgradeString(u, section, part) == IF HasUpgrade(u, section, part) THEN Trim(u[<<section, part>>]) ELSE <<>>

\* Number(raw) for a trimmed, non-empty raw: [sign] digits [. digits] or
\* [sign] . digits is a finite number, anything else over the modelled
\* alphabet (no exponent, hex or Infinity literals) is NaN.  The value is
\* in hundredths; the modelled literals carry at most two fraction digits.
NumberOf(raw) ==
    LET neg == raw[1] = "-"
        b == IF raw[1] \in {"-", "+"} THEN 2 ELSE 1
        e == SkipDigits(raw, b)
        hasDot == e <= Len(raw) /\ raw[e] = "."
        fb == IF hasDot THEN e + 1 ELSE e
        fe == SkipDigits(raw, fb)
        nInt == e - b
        nFrac == fe - fb
        frac == IF nFrac = 0 THEN 0
                ELSE IF nFrac = 1 THEN DigitVal(raw[fb]) * 10
                ELSE DigitVal(raw[fb]) * 10 + DigitVal(raw[fb + 1])
        mag == DigitsValue(raw, b, e) * 100 + frac
    IN IF fe = Len(raw) + 1 /\ nInt + nFrac >= 1
       THEN Some(IF neg THEN 0 - mag ELSE mag)
       ELSE None

\* parseOptionalNumber applied to an optional raw value
parseOptionalNumber(v) ==
    IF v = None THEN None
    ELSE LET raw == Trim(v[1])
         IN IF raw = <<>> THEN None ELSE NumberOf(raw)

-----------------------------------------------------------------------------
(* Numeric helpers *)

\* Math.round(n / d) for d > 0: the nearest integer, halves towards +infinity
RoundDiv(n, d) == (n \div d) + (IF 2 * (n % d) >= d THEN 1 ELSE 0)

clamp(value, min, max) == IF value < min THEN min ELSE IF value > max THEN max ELSE value

Max(a, b) == IF a >= b THEN a ELSE b

Min(a, b) == IF a <= b THEN a ELSE b

-----------------------------------------------------------------------------
(* Car helpers *)

Drivetrains == {"RWD", "FWD", "AWD", "4WD"}

\* mutant: the ratio cached at module scope by the previous call
powerToWeightRatio_cached(c) ==
    IF args # None
    THEN [num |-> args[1].car.power_hp, den |-> args[1].car.weight_lbs]
    ELSE [num |-> c.power_hp, den |-> c.weight_lbs]

\* car.power_hp / car.weight_lbs kept as a fraction; a zero denominator is
\* Infinity (positive power) or NaN (zero power)
powerToWeightRatio(c) == [num |-> c.power_hp, den |-> c.weight_lbs]

\* variant in which a ratio over weight 0 passes no threshold
RatioGt_zeroFalse(r, a, b) == IF r.den = 0 THEN FALSE ELSE r.num * b > a * r.den

\* pwr > a/b as IEEE-754 evaluates it: Infinity > x is true, NaN > x is false
RatioGt(r, a, b) == IF r.den = 0 THEN r.num > 0 ELSE r.num * b > a * r.den

\* in hundredths; the optional field counts only when 0 < wd < 1
getWeightDistributionFront(c) ==
    LET wd == c.weight_distribution_front
    IN IF wd # None /\ wd[1] > 0 /\ wd[1] < 100 THEN clamp(wd[1], 40, 65) ELSE 55

\* transmission.match(/Race:\s*(\d+)\s*Speed/i) tried at position i of the
\* lower-cased text l (the i flag): the captured number, or None when the
\* pattern does not match there
RaceMatchAt(l, i) ==
    LET d == SkipSpace(l, i + 5)
        e == SkipDigits(l, d)
        w == SkipSpace(l, e)
    IN IF StartsWithAt(l, i, <<"r", "a", "c", "e", ":">>) /\ e > d /\ StartsWithAt(l, w, <<"s", "p", "e", "e", "d">>)
       THEN Some(DigitsValue(l, d, e))
       ELSE None

\* the capture of the leftmost match, or None
RaceMatch(s) ==
    LET l == ToLowerCase(s)
        hits == {i \in 1..Len(l) : RaceMatchAt(l, i) # None}
    IN IF hits = {} THEN None ELSE RaceMatchAt(l, CHOOSE i \in hits : \A j \in hits : i <= j)

\* /Drift:\s*4\s*Speed/i.test(transmission)
DriftMatch(s) ==
    LET l == ToLowerCase(s)
    IN \E i \in 1..Len(s) :
          LET d == SkipSpace(l, i + 6)
              w == SkipSpace(l, d + 1)
          IN /\ StartsWithAt(l, i, <<"d", "r", "i", "f", "t", ":">>)
             /\ StartsWithAt(l, d, <<"4">>)
             /\ StartsWithAt(l, w, <<"s", "p", "e", "e", "d">>)

\* mutant: the lower limit of the transmission's gear count off by one
getTargetGearCount_offByOne(c, u) ==
    LET transmission == getUpgradeString(u, "Drivetrain", "Transmission")
        m == RaceMatch(transmission)
    IN IF m # None /\ m[1] >= 3 /\ m[1] <= 10 THEN m[1]
       ELSE IF DriftMatch(transmission) THEN 4
       ELSE IF c.gears # None /\ c.gears[1] >= 40 /\ c.gears[1] <= 100 THEN RoundDiv(c.gears[1], 10)
       ELSE 6

getTargetGearCount(c, u) ==
    LET transmission == getUpgradeString(u, "Drivetrain", "Transmission")
        m == RaceMatch(transmission)
    IN IF m # None /\ m[1] >= 4 /\ m[1] <= 10 THEN m[1]
       ELSE IF DriftMatch(transmission) THEN 4
       ELSE IF c.gears # None /\ c.gears[1] >= 40 /\ c.gears[1] <= 100 THEN RoundDiv(c.gears[1], 10)
       ELSE 6

-----------------------------------------------------------------------------
(* Subsystems *)

Styles == {"Road", "Race", "Drift", "Offroad", "Rally", "Cruise", "Drag", "Street"}

Weathers == {"Dry", "Wet"}

\* variant whose power-to-weight nudge applies to Street but not to Road
calculateGearing_roadPlain(c, style) ==
    LET pwr == powerToWeightRatio(c)
    IN CASE style = "Drag" ->
              [final_drive |-> 450 + (IF RatioGt(pwr, 1, 5) THEN 30 ELSE 0),
               gear_ratios |-> <<380, 260, 185, 140, 115, 95>>]
         [] style = "Race" ->
              [final_drive |-> 350 + (IF RatioGt(pwr, 1, 4) THEN 20 ELSE -20),
               gear_ratios |-> <<300, 210, 150, 120, 100, 85>>]
         [] style = "Drift" ->
              [final_drive |-> 420, gear_ratios |-> <<350, 240, 170, 130, 105, 90>>]
         [] style \in {"Offroad", "Rally"} ->
              [final_drive |-> 380, gear_ratios |-> <<320, 220, 160, 125, 100, 82>>]
         [] style = "Street" ->
              [final_drive |-> 320 - (IF RatioGt(pwr, 1, 5) THEN 20 ELSE 0),
               gear_ratios |-> <<280, 190, 140, 110, 90, 75>>]
         [] style = "Cruise" ->
              [final_drive |-> 300, gear_ratios |-> <<260, 180, 130, 105, 88, 72>>]
         [] OTHER ->
              [final_drive |-> 320, gear_ratios |-> <<280, 190, 140, 110, 90, 75>>]

\* mutant: the Drag nudge taken at the Race threshold of 0.25
calculateGearing_oneThreshold(c, style) ==
    LET pwr == powerToWeightRatio(c)
    IN CASE style = "Drag" ->
              [final_drive |-> 450 + (IF RatioGt(pwr, 1, 4) THEN 30 ELSE 0),
               gear_ratios |-> <<380, 260, 185, 140, 115, 95>>]
         [] style = "Race" ->
              [final_drive |-> 350 + (IF RatioGt(pwr, 1, 4) THEN 20 ELSE -20),
               gear_ratios |-> <<300, 210, 150, 120, 100, 85>>]
         [] style = "Drift" ->
              [final_drive |-> 420, gear_ratios |-> <<350, 240, 170, 130, 105, 90>>]
         [] style \in {"Offroad", "Rally"} ->
              [final_drive |-> 380, gear_ratios |-> <<320, 220, 160, 125, 100, 82>>]
         [] style \in {"Street", "Road"} ->
              [final_drive |-> 320 - (IF RatioGt(pwr, 1, 5) THEN 20 ELSE 0),
               gear_ratios |-> <<280, 190, 140, 110, 90, 75>>]
         [] style = "Cruise" ->
              [final_drive |-> 300, gear_ratios |-> <<260, 180, 130, 105, 88, 72>>]
         [] OTHER ->
              [final_drive |-> 320, gear_ratios |-> <<280, 190, 140, 110, 90, 75>>]

calculateGearing(c, style) ==
    LET pwr == powerToWeightRatio(c)
    IN CASE style = "Drag" ->
              [final_drive |-> 450 + (IF RatioGt(pwr, 1, 5) THEN 30 ELSE 0),
               gear_ratios |-> <<380, 260, 185, 140, 115, 95>>]
         [] style = "Race" ->
              [final_drive |-> 350 + (IF RatioGt(pwr, 1, 4) THEN 20 ELSE -20),
               gear_ratios |-> <<300, 210, 150, 120, 100, 85>>]
         [] style = "Drift" ->
              [final_drive |-> 420, gear_ratios |-> <<350, 240, 170, 130, 105, 90>>]
         [] style \in {"Offroad", "Rally"} ->
              [final_drive |-> 380, gear_ratios |-> <<320, 220, 160, 125, 100, 82>>]
         [] style \in {"Street", "Road"} ->
              [final_drive |-> 320 - (IF RatioGt(pwr, 1, 5) THEN 20 ELSE 0),
               gear_ratios |-> <<280, 190, 140, 110, 90, 75>>]
         [] style = "Cruise" ->
              [final_drive |-> 300, gear_ratios |-> <<260, 180, 130, 105, 88, 72>>]
         [] OTHER ->
              [final_drive |-> 320, gear_ratios |-> <<280, 190, 140, 110, 90, 75>>]

\* mutant: the AWD branch tests for "AWD" only
calculateDifferential_awdOnly(c, style) ==
    LET accel == CASE style = "Race" -> 75 [] style = "Drift" -> 15 [] style = "Drag" -> 100
                   [] style \in {"Offroad", "Rally"} -> 60 [] style \in {"Street", "Road"} -> 50
                   [] style = "Cruise" -> 45 [] OTHER -> 50
        decel == CASE style = "Race" -> 15 [] style = "Drift" -> 5 [] style = "Drag" -> 10
                   [] style \in {"Offroad", "Rally"} -> 25 [] style \in {"Street", "Road"} -> 20
                   [] style = "Cruise" -> 25 [] OTHER -> 20
        awd == c.drivetrain = "AWD"
    IN [differential_accel |-> accel,
        differential_decel |-> decel,
        differential_preload |-> RoundDiv((accel + decel) * 2, 5),
        center_diff |-> IF awd THEN Some(IF style = "Drift" THEN 70 ELSE 50) ELSE None,
        front_diff |-> IF awd THEN Some(accel * 80) ELSE None,
        rear_diff |-> IF awd THEN Some(accel * 90) ELSE None]

\* mutant: the preload taken as half of accel + decel
calculateDifferential_preloadHalf(c, style) ==
    LET accel == CASE style = "Race" -> 75 [] style = "Drift" -> 15 [] style = "Drag" -> 100
                   [] style \in {"Offroad", "Rally"} -> 60 [] style \in {"Street", "Road"} -> 50
                   [] style = "Cruise" -> 45 [] OTHER -> 50
        decel == CASE style = "Race" -> 15 [] style = "Drift" -> 5 [] style = "Drag" -> 10
                   [] style \in {"Offroad", "Rally"} -> 25 [] style \in {"Street", "Road"} -> 20
                   [] style = "Cruise" -> 25 [] OTHER -> 20
        awd == c.drivetrain = "AWD" \/ c.drivetrain = "4WD"
    IN [differential_accel |-> accel,
        differential_decel |-> decel,
        differential_preload |-> RoundDiv(accel + decel, 2),
        center_diff |-> IF awd THEN Some(IF style = "Drift" THEN 70 ELSE 50) ELSE None,
        front_diff |-> IF awd THEN Some(accel * 80) ELSE None,
        rear_diff |-> IF awd THEN Some(accel * 90) ELSE None]

calculateDifferential(c, style) ==
    LET accel == CASE style = "Race" -> 75 [] style = "Drift" -> 15 [] style = "Drag" -> 100
                   [] style \in {"Offroad", "Rally"} -> 60 [] style \in {"Street", "Road"} -> 50
                   [] style = "Cruise" -> 45 [] OTHER -> 50
        decel == CASE style = "Race" -> 15 [] style = "Drift" -> 5 [] style = "Drag" -> 10
                   [] style \in {"Offroad", "Rally"} -> 25 [] style \in {"Street", "Road"} -> 20
                   [] style = "Cruise" -> 25 [] OTHER -> 20
        awd == c.drivetrain = "AWD" \/ c.drivetrain = "4WD"
    IN [differential_accel |-> accel,
        differential_decel |-> decel,
        differential_preload |-> RoundDiv((accel + decel) * 2, 5),
        center_diff |-> IF awd THEN Some(IF style = "Drift" THEN 70 ELSE 50) ELSE None,
        front_diff |-> IF awd THEN Some(accel * 80) ELSE None,
        rear_diff |-> IF awd THEN Some(accel * 90) ELSE None]

\* roundings are taken on the exact product weight_factor * distribution; the
\* double product differs from it only where the exact product is half-way
\* between two integers (350 * 3865 / 3500 = 386.5), and the cars of the
\* specifications below have weights at which no product is half-way
calculateSuspension(c, style) ==
    LET wdFront == getWeightDistributionFront(c)
        wdRear == 100 - wdFront
        spring_base == CASE style = "Race" -> 600 [] style = "Drift" -> 500 [] style = "Drag" -> 550
                         [] style = "Offroad" -> 350 [] style = "Rally" -> 380
                         [] style \in {"Street", "Road"} -> 450 [] style = "Cruise" -> 400 [] OTHER -> 450
        ride_height_base == CASE style = "Race" -> 6 [] style = "Drift" -> 12 [] style = "Drag" -> 5
                              [] style = "Offroad" -> 18 [] style = "Rally" -> 15
                              [] style \in {"Street", "Road"} -> 10 [] style = "Cruise" -> 12 [] OTHER -> 10
        \* in twentieths: 1.05, 0.85, 0.8, 0.7, 1.0
        arbScale == IF style = "Race" THEN 21
                    ELSE IF style = "Drift" THEN 17
                    ELSE IF style = "Offroad" \/ style = "Rally" THEN 16
                    ELSE IF style = "Drag" THEN 14
                    ELSE 20
    IN [spring_front |-> RoundDiv(spring_base * c.weight_lbs * wdFront, 3500 * 55),
        spring_rear |-> RoundDiv(spring_base * c.weight_lbs * wdRear, 3500 * 45),
        arb_front |-> RoundDiv((32 * wdFront + 25) * arbScale * c.weight_lbs, 50 * 20 * 3500),
        arb_rear |-> RoundDiv((32 * wdRear + 50) * arbScale * c.weight_lbs, 50 * 20 * 3500),
        ride_height_front |-> ride_height_base,
        ride_height_rear |-> IF style = "Drag" THEN ride_height_base + 3 ELSE ride_height_base + 1]

calculateAlignment(c, style) ==
    CASE style = "Race" -> [camber_front |-> -250, camber_rear |-> -200, toe_front |-> -10, toe_rear |-> 20, caster |-> 650]
      [] style = "Drift" -> [camber_front |-> -300, camber_rear |-> -250, toe_front |-> 0, toe_rear |-> 30, caster |-> 700]
      [] style = "Drag" -> [camber_front |-> -200, camber_rear |-> -150, toe_front |-> 0, toe_rear |-> 0, caster |-> 500]
      [] style = "Offroad" -> [camber_front |-> -100, camber_rear |-> -80, toe_front |-> 0, toe_rear |-> 10, caster |-> 500]
      [] style = "Rally" -> [camber_front |-> -150, camber_rear |-> -120, toe_front |-> 0, toe_rear |-> 15, caster |-> 550]
      [] style \in {"Street", "Road"} -> [camber_front |-> -150, camber_rear |-> -120, toe_front |-> 0, toe_rear |-> 10, caster |-> 550]
      [] style = "Cruise" -> [camber_front |-> -100, camber_rear |-> -80, toe_front |-> 0, toe_rear |-> 5, caster |-> 500]
      [] OTHER -> [camber_front |-> -150, camber_rear |-> -120, toe_front |-> 0, toe_rear |-> 10, caster |-> 550]

\* clamp(spring / 550, 0.8, 1.25) as a fraction
SpringScale(spring) ==
    IF spring * 5 < 4 * 550 THEN [num |-> 4, den |-> 5]
    ELSE IF spring * 4 > 5 * 550 THEN [num |-> 5, den |-> 4]
    ELSE [num |-> spring, den |-> 550]

\* (rebound * mult).toFixed(1) with rebound in tenths and mult in hundredths.
\* toFixed rounds the double product, which at an exact half-way value lies
\* just above or below the half: for rebounds up to 20.0, 0.7 x rebound
\* rounds up only at 2.5, 7.5, 12.5 and 17.5, 0.45 x rebound rounds down
\* only at 7.0 and 9.0, and 0.55 x rebound always rounds up.
Compression(rebound, mult) ==
    LET n == rebound * mult
        halfUp == IF mult = 70 THEN rebound % 50 = 25
                  ELSE IF mult = 45 THEN rebound \notin {70, 90}
                  ELSE TRUE
    IN IF n % 100 = 50 THEN (n \div 100) + (IF halfUp THEN 1 ELSE 0) ELSE RoundDiv(n, 100)

\* rebound and compression in tenths; the rebound and the springs are
\* rounded on the exact products (the modelled cars give no half-way value)
calculateDamping(c, springs, style) ==
    LET wdFront == getWeightDistributionFront(c)
        wdRear == 100 - wdFront
        intentScale == IF style = "Race" THEN 108
                       ELSE IF style = "Drift" THEN 105
                       ELSE IF style = "Offroad" \/ style = "Rally" THEN 90
                       ELSE IF style = "Drag" THEN 95
                       ELSE 100
        sf == SpringScale(springs.spring_front)
        sr == SpringScale(springs.spring_rear)
        reboundFront == RoundDiv((19 * wdFront + 50) * intentScale * sf.num, 1000 * sf.den)
        reboundRear == RoundDiv((19 * wdRear + 100) * intentScale * sr.num, 1000 * sr.den)
        bumpFrontMult == IF style = "Drift" THEN 55 ELSE 70
        bumpRearMult == IF style = "Drift" THEN 45 ELSE 60
    IN [damping_rebound_front |-> reboundFront,
        damping_rebound_rear |-> reboundRear,
        damping_compression_front |-> Compression(reboundFront, bumpFrontMult),
        damping_compression_rear |-> Compression(reboundRear, bumpRearMult)]

\* mutant: a softer Drag rear tire, 17 psi instead of 22
calculateTires_softDrag(c, style) ==
    LET compound == CASE style = "Race" -> <<"R", "a", "c", "e">>
                      [] style = "Drift" -> <<"D", "r", "i", "f", "t">>
                      [] style = "Drag" -> <<"D", "r", "a", "g">>
                      [] style = "Offroad" -> <<"O", "f", "f", "r", "o", "a", "d">>
                      [] style = "Rally" -> <<"R", "a", "l", "l", "y">>
                      [] OTHER -> <<"S", "t", "r", "e", "e", "t">>
        front == CASE style = "Race" -> 30 [] style = "Drift" -> 28 [] style = "Drag" -> 35
                   [] style = "Offroad" -> 26 [] style = "Rally" -> 27
                   [] style \in {"Street", "Road"} -> 32 [] style = "Cruise" -> 33 [] OTHER -> 32
        rear == CASE style = "Race" -> 28 [] style = "Drift" -> 26 [] style = "Drag" -> 17
                  [] style = "Offroad" -> 24 [] style = "Rally" -> 25
                  [] style \in {"Street", "Road"} -> 30 [] style = "Cruise" -> 31 [] OTHER -> 30
        pressure_front == IF c.drivetrain = "FWD" THEN front - 1 ELSE front
        pressure_rear == IF c.drivetrain = "RWD" THEN rear - 1 ELSE rear
    IN [tire_compound |-> compound,
        tire_pressure_front |-> clamp(pressure_front, 15, 40),
        tire_pressure_rear |-> clamp(pressure_rear, 15, 40)]

\* tire_compound is a character string, as the upgrade options are
calculateTires(c, style) ==
    LET compound == CASE style = "Race" -> <<"R", "a", "c", "e">>
                      [] style = "Drift" -> <<"D", "r", "i", "f", "t">>
                      [] style = "Drag" -> <<"D", "r", "a", "g">>
                      [] style = "Offroad" -> <<"O", "f", "f", "r", "o", "a", "d">>
                      [] style = "Rally" -> <<"R", "a", "l", "l", "y">>
                      [] OTHER -> <<"S", "t", "r", "e", "e", "t">>
        front == CASE style = "Race" -> 30 [] style = "Drift" -> 28 [] style = "Drag" -> 35
                   [] style = "Offroad" -> 26 [] style = "Rally" -> 27
                   [] style \in {"Street", "Road"} -> 32 [] style = "Cruise" -> 33 [] OTHER -> 32
        rear == CASE style = "Race" -> 28 [] style = "Drift" -> 26 [] style = "Drag" -> 22
                  [] style = "Offroad" -> 24 [] style = "Rally" -> 25
                  [] style \in {"Street", "Road"} -> 30 [] style = "Cruise" -> 31 [] OTHER -> 30
        pressure_front == IF c.drivetrain = "FWD" THEN front - 1 ELSE front
        pressure_rear == IF c.drivetrain = "RWD" THEN rear - 1 ELSE rear
    IN [tire_compound |-> compound,
        tire_pressure_front |-> clamp(pressure_front, 15, 40),
        tire_pressure_rear |-> clamp(pressure_rear, 15, 40)]

calculateAero(c, style) ==
    CASE style = "Race" -> [downforce_front |-> IF c.pi > 850 THEN 200 ELSE 150,
                            downforce_rear |-> IF c.pi > 850 THEN 300 ELSE 200]
      [] style = "Drift" -> [downforce_front |-> 50, downforce_rear |-> 80]
      [] style \in {"Drag", "Offroad"} -> [downforce_front |-> 0, downforce_rear |-> 0]
      [] style = "Rally" -> [downforce_front |-> 80, downforce_rear |-> 120]
      [] style \in {"Street", "Road"} -> [downforce_front |-> 100, downforce_rear |-> 150]
      [] style = "Cruise" -> [downforce_front |-> 60, downforce_rear |-> 90]
      [] OTHER -> [downforce_front |-> 100, downforce_rear |-> 150]

\* variant whose power bump of the traction control has no cap
calculateElectronics_uncapped(c, style) ==
    LET base == CASE style = "Race" -> [tc |-> 0, abs |-> 0, sc |-> 0, turbo |-> 90]
                  [] style \in {"Drift", "Drag"} -> [tc |-> 0, abs |-> 0, sc |-> 0, turbo |-> 100]
                  [] style = "Offroad" -> [tc |-> 2, abs |-> 1, sc |-> 1, turbo |-> 85]
                  [] style = "Rally" -> [tc |-> 1, abs |-> 1, sc |-> 1, turbo |-> 88]
                  [] style \in {"Street", "Road"} -> [tc |-> 1, abs |-> 1, sc |-> 1, turbo |-> 80]
                  [] style = "Cruise" -> [tc |-> 2, abs |-> 2, sc |-> 2, turbo |-> 75]
                  [] OTHER -> [tc |-> 1, abs |-> 1, sc |-> 1, turbo |-> 80]
    IN [traction_control_level |-> IF c.drivetrain = "RWD" /\ RatioGt(powerToWeightRatio(c), 1, 4)
                                   THEN base.tc + 1 ELSE base.tc,
        abs_level |-> base.abs,
        stability_control |-> base.sc,
        turbo_map |-> base.turbo]

\* mutant: the traction-control bump given to every powerful car
calculateElectronics_anyDrivetrain(c, style) ==
    LET base == CASE style = "Race" -> [tc |-> 0, abs |-> 0, sc |-> 0, turbo |-> 90]
                  [] style \in {"Drift", "Drag"} -> [tc |-> 0, abs |-> 0, sc |-> 0, turbo |-> 100]
                  [] style = "Offroad" -> [tc |-> 2, abs |-> 1, sc |-> 1, turbo |-> 85]
                  [] style = "Rally" -> [tc |-> 1, abs |-> 1, sc |-> 1, turbo |-> 88]
                  [] style \in {"Street", "Road"} -> [tc |-> 1, abs |-> 1, sc |-> 1, turbo |-> 80]
                  [] style = "Cruise" -> [tc |-> 2, abs |-> 2, sc |-> 2, turbo |-> 75]
                  [] OTHER -> [tc |-> 1, abs |-> 1, sc |-> 1, turbo |-> 80]
    IN [traction_control_level |-> IF RatioGt(powerToWeightRatio(c), 1, 4)
                                   THEN Min(base.tc + 1, 2) ELSE base.tc,
        abs_level |-> base.abs,
        stability_control |-> base.sc,
        turbo_map |-> base.turbo]

calculateElectronics(c, style) ==
    LET base == CASE style = "Race" -> [tc |-> 0, abs |-> 0, sc |-> 0, turbo |-> 90]
                  [] style \in {"Drift", "Drag"} -> [tc |-> 0, abs |-> 0, sc |-> 0, turbo |-> 100]
                  [] style = "Offroad" -> [tc |-> 2, abs |-> 1, sc |-> 1, turbo |-> 85]
                  [] style = "Rally" -> [tc |-> 1, abs |-> 1, sc |-> 1, turbo |-> 88]
                  [] style \in {"Street", "Road"} -> [tc |-> 1, abs |-> 1, sc |-> 1, turbo |-> 80]
                  [] style = "Cruise" -> [tc |-> 2, abs |-> 2, sc |-> 2, turbo |-> 75]
                  [] OTHER -> [tc |-> 1, abs |-> 1, sc |-> 1, turbo |-> 80]
    IN [traction_control_level |-> IF c.drivetrain = "RWD" /\ RatioGt(powerToWeightRatio(c), 1, 4)
                                   THEN Min(base.tc + 1, 2) ELSE base.tc,
        abs_level |-> base.abs,
        stability_control |-> base.sc,
        turbo_map |-> base.turbo]

\* variant whose bias without a matching style is the plain 52
calculateBrakes_noNudge(c, style) ==
    LET wdFront == getWeightDistributionFront(c)
        nudged == 52 - RoundDiv(55 - wdFront, 10)
        bias == CASE style = "Race" -> 55 [] style = "Drift" -> 60 [] style = "Drag" -> 70
                  [] style = "Offroad" -> 50 [] style = "Rally" -> 51
                  [] style \in {"Street", "Road"} -> 52 [] style = "Cruise" -> 53 [] OTHER -> 52
        pressure == CASE style = "Race" -> 105 [] style = "Drag" -> 110 [] style = "Offroad" -> 95 [] OTHER -> 100
    IN [brake_bias |-> IF c.drivetrain = "FWD" THEN bias + 3 ELSE IF c.drivetrain = "RWD" THEN bias - 2 ELSE bias,
        brake_pressure |-> pressure]

\* mutant: the drivetrain adjustment made before the style switch, which
\* then overwrites it
calculateBrakes_adjustFirst(c, style) ==
    LET wdFront == getWeightDistributionFront(c)
        nudged == 52 - RoundDiv(55 - wdFront, 10)
        adjusted == IF c.drivetrain = "FWD" THEN nudged + 3 ELSE IF c.drivetrain = "RWD" THEN nudged - 2 ELSE nudged
        bias == CASE style = "Race" -> 55 [] style = "Drift" -> 60 [] style = "Drag" -> 70
                  [] style = "Offroad" -> 50 [] style = "Rally" -> 51
                  [] style \in {"Street", "Road"} -> 52 [] style = "Cruise" -> 53 [] OTHER -> adjusted
        pressure == CASE style = "Race" -> 105 [] style = "Drag" -> 110 [] style = "Offroad" -> 95 [] OTHER -> 100
    IN [brake_bias |-> bias, brake_pressure |-> pressure]

\* mutant: the distribution nudge added after the style switch
calculateBrakes_nudgeLast(c, style) ==
    LET wdFront == getWeightDistributionFront(c)
        nudge == 0 - RoundDiv(55 - wdFront, 10)
        bias == CASE style = "Race" -> 55 [] style = "Drift" -> 60 [] style = "Drag" -> 70
                  [] style = "Offroad" -> 50 [] style = "Rally" -> 51
                  [] style \in {"Street", "Road"} -> 52 [] style = "Cruise" -> 53 [] OTHER -> 52
        pressure == CASE style = "Race" -> 105 [] style = "Drag" -> 110 [] style = "Offroad" -> 95 [] OTHER -> 100
    IN [brake_bias |-> bias + nudge + (IF c.drivetrain = "FWD" THEN 3 ELSE IF c.drivetrain = "RWD" THEN -2 ELSE 0),
        brake_pressure |-> pressure]

\* the distribution nudge of bias is overwritten by every case of the
\* style switch and survives only for an unmatched style; the double 0.55
\* lies above 0.55, so (wdFront - 0.55) * 10 falls below the half at
\* 0.40, 0.50 and 0.60 and Math.round takes the lower integer there
calculateBrakes(c, style) ==
    LET wdFront == getWeightDistributionFront(c)
        nudged == 52 - RoundDiv(55 - wdFront, 10)
        bias == CASE style = "Race" -> 55 [] style = "Drift" -> 60 [] style = "Drag" -> 70
                  [] style = "Offroad" -> 50 [] style = "Rally" -> 51
                  [] style \in {"Street", "Road"} -> 52 [] style = "Cruise" -> 53 [] OTHER -> nudged
        pressure == CASE style = "Race" -> 105 [] style = "Drag" -> 110 [] style = "Offroad" -> 95 [] OTHER -> 100
    IN [brake_bias |-> IF c.drivetrain = "FWD" THEN bias + 3 ELSE IF c.drivetrain = "RWD" THEN bias - 2 ELSE bias,
        brake_pressure |-> pressure]

-----------------------------------------------------------------------------
(* calculateTune *)

sStock == <<"S", "t", "o", "c", "k">>
sStreet == <<"S", "t", "r", "e", "e", "t">>
sSport == <<"S", "p", "o", "r", "t">>
sRace == <<"R", "a", "c", "e">>
sRally == <<"R", "a", "l", "l", "y">>
sDrift == <<"D", "r", "i", "f", "t">>
sOffRoad == <<"O", "f", "f", "-", "R", "o", "a", "d">>
sMixed == <<"M", "i", "x", "e", "d">>
sRWD == <<"R", "W", "D">>
sFWD == <<"F", "W", "D">>
sAWD == <<"A", "W", "D">>
s4WD == <<"4", "W", "D">>
sAntiLag == <<"R", "a", "c", "e", " ", "w", "i", "t", "h", " ", "A", "n", "t", "i", "-", "l", "a", "g">>

\* the drivetrain value a swap option names, None for any other text
SwapDrivetrain(s) ==
    IF s = sRWD THEN Some("RWD") ELSE IF s = sFWD THEN Some("FWD")
    ELSE IF s = sAWD THEN Some("AWD") ELSE IF s = s4WD THEN Some("4WD") ELSE None

\* mutant: the reduced weight cut with Math.floor instead of Math.round
EffectiveCar_floorWeight(c, u) ==
    LET drivetrainSwap == SwapDrivetrain(getUpgradeString(u, "Conversion", "Drivetrain Swap"))
        weightReduction == getUpgradeString(u, "Platform", "Weight Reduction")
        factor == IF weightReduction = sStreet THEN 95
                  ELSE IF weightReduction = sSport THEN 90
                  ELSE IF weightReduction = sRace THEN 85
                  ELSE 100
        swapped == IF drivetrainSwap # None THEN [c EXCEPT !.drivetrain = drivetrainSwap[1]] ELSE c
    IN IF weightReduction # <<>> /\ weightReduction # sStock
       THEN [swapped EXCEPT !.weight_lbs = (swapped.weight_lbs * factor) \div 100]
       ELSE swapped

\* effectiveCar: a copy of the car with the swapped drivetrain and the
\* reduced weight
EffectiveCar(c, u) ==
    LET drivetrainSwap == SwapDrivetrain(getUpgradeString(u, "Conversion", "Drivetrain Swap"))
        weightReduction == getUpgradeString(u, "Platform", "Weight Reduction")
        factor == IF weightReduction = sStreet THEN 95
                  ELSE IF weightReduction = sSport THEN 90
                  ELSE IF weightReduction = sRace THEN 85
                  ELSE 100
        swapped == IF drivetrainSwap # None THEN [c EXCEPT !.drivetrain = drivetrainSwap[1]] ELSE c
    IN IF weightReduction # <<>> /\ weightReduction # sStock
       THEN [swapped EXCEPT !.weight_lbs = RoundDiv(swapped.weight_lbs * factor, 100)]
       ELSE swapped

\* mutant: effectiveCar aliases the caller's record instead of copying it
CallerCarAfter_alias(c, u) == EffectiveCar(c, u)

\* what the call leaves in the caller's car record: effectiveCar is a
\* spread copy, so the record passed in keeps its fields
CallerCarAfter(c, u) == c

\* what the call leaves in the caller's upgrade selection: it is only read
CallerUpgradesAfter(c, u) == u

Assemble(ec, style) ==
    LET suspension == calculateSuspension(ec, style)
    IN calculateGearing(ec, style) @@ calculateDifferential(ec, style) @@ calculateBrakes(ec, style)
       @@ suspension @@ calculateAlignment(ec, style) @@ calculateDamping(ec, suspension, style)
       @@ calculateTires(ec, style) @@ calculateAero(ec, style) @@ calculateElectronics(ec, style)

\* mutant: the product rounded to one decimal instead of two
NextRatio_oneDecimal(r) == RoundDiv(r * 88, 1000) * 10

\* r * 0.88 to two decimals (88 r is never half-way between two hundredths)
NextRatio(r) == RoundDiv(r * 88, 100)

\* the while loop that synthesizes ratios until the list has gearCount entries
RECURSIVE ExtendRatios(_, _, _)
ExtendRatios(next, r, gearCount) ==
    IF Len(next) < gearCount
    THEN ExtendRatios(Append(next, Max(40, NextRatio(r))), NextRatio(r), gearCount)
    ELSE next

NormalizeGearCount(t, ec, u) ==
    LET gearCount == getTargetGearCount(ec, u)
        base == t.gear_ratios
        last == IF Len(base) > 0 THEN base[Len(base)] ELSE 75
        kept == SubSeq(base, 1, Min(gearCount, Len(base)))
    IN IF gearCount # Len(base)
       THEN [t EXCEPT !.gear_ratios = IF gearCount > Len(base) THEN ExtendRatios(kept, last, gearCount) ELSE kept]
       ELSE t

GearKey(i) == "Gear " \o ToString(i) \o " Ratio"

\* the loop collecting 'Gear i Ratio' for i = i..n: it empties the list and
\* stops at the first entry that does not parse
RECURSIVE ManualRatios(_, _, _, _)
ManualRatios(u, i, n, acc) ==
    IF i > n THEN acc
    ELSE LET v == parseOptionalNumber(RawUpgrade(u, "Tuning", GearKey(i)))
         IN IF v = None THEN <<>> ELSE ManualRatios(u, i + 1, n, Append(acc, v[1]))

\* mutant: every entry that parses replaces its own gear
ManualOverride_perGear(t, u) ==
    LET manualFinal == parseOptionalNumber(RawUpgrade(u, "Tuning", "Final Drive"))
        t1 == IF manualFinal # None THEN [t EXCEPT !.final_drive = manualFinal[1]] ELSE t
    IN [t1 EXCEPT !.gear_ratios = [i \in 1..Len(t1.gear_ratios) |->
            LET v == parseOptionalNumber(RawUpgrade(u, "Tuning", GearKey(i)))
            IN IF v # None THEN v[1] ELSE t1.gear_ratios[i]]]

\* mutant: a manual final drive is kept within the 2.0 .. 6.0 range
ManualOverride_rangeChecked(t, u) ==
    LET manualFinal == parseOptionalNumber(RawUpgrade(u, "Tuning", "Final Drive"))
        t1 == IF manualFinal # None THEN [t EXCEPT !.final_drive = clamp(manualFinal[1], 200, 600)] ELSE t
        manualRatios == ManualRatios(u, 1, Len(t1.gear_ratios), <<>>)
    IN IF Len(manualRatios) = Len(t1.gear_ratios) THEN [t1 EXCEPT !.gear_ratios = manualRatios] ELSE t1

ManualOverride(t, u) ==
    LET manualFinal == parseOptionalNumber(RawUpgrade(u, "Tuning", "Final Drive"))
        t1 == IF manualFinal # None THEN [t EXCEPT !.final_drive = manualFinal[1]] ELSE t
        manualRatios == ManualRatios(u, 1, Len(t1.gear_ratios), <<>>)
    IN IF Len(manualRatios) = Len(t1.gear_ratios) THEN [t1 EXCEPT !.gear_ratios = manualRatios] ELSE t1

ArbMult(s) == IF s = sStreet THEN 105 ELSE IF s = sSport THEN 110 ELSE IF s = sRace THEN 115 ELSE 100

\* mutant: the Race rear wing counted again with the bumpers
ApplyPlatformAero_wingTwice(t, u) ==
    LET springs == RawUpgrade(u, "Platform", "Springs")
        t1 == IF springs = Some(sRace)
              THEN [t EXCEPT !.spring_front = @ + 50, !.spring_rear = @ + 50]
              ELSE IF springs = Some(sRally)
              THEN [t EXCEPT !.spring_front = @ - 50, !.spring_rear = @ - 50,
                             !.ride_height_front = @ + 3, !.ride_height_rear = @ + 3]
              ELSE t
        frontArb == getUpgradeString(u, "Platform", "Front ARB")
        t2 == IF frontArb # <<>> /\ frontArb # sStock
              THEN [t1 EXCEPT !.arb_front = RoundDiv(@ * ArbMult(frontArb), 100)] ELSE t1
        rearArb == getUpgradeString(u, "Platform", "Rear ARB")
        t3 == IF rearArb # <<>> /\ rearArb # sStock
              THEN [t2 EXCEPT !.arb_rear = RoundDiv(@ * ArbMult(rearArb), 100)] ELSE t2
        brakesUpgrade == getUpgradeString(u, "Platform", "Brakes")
        delta == IF brakesUpgrade = sStreet THEN 3 ELSE IF brakesUpgrade = sSport THEN 6
                 ELSE IF brakesUpgrade = sRace THEN 10 ELSE 0
        t4 == IF brakesUpgrade # <<>> /\ brakesUpgrade # sStock
              THEN [t3 EXCEPT !.brake_pressure = clamp(@ + delta, 80, 140)] ELSE t3
        t5 == IF RawUpgrade(u, "Aero", "Rear Wing") = Some(sRace)
              THEN [t4 EXCEPT !.downforce_rear = @ + 50] ELSE t4
        frontBumper == getUpgradeString(u, "Aero", "Front Bumper")
        t6 == [t5 EXCEPT !.downforce_front = @ + (IF frontBumper = sSport THEN 20 ELSE 0)
                                               + (IF frontBumper = sRace THEN 40 ELSE 0)]
        rearBumper == getUpgradeString(u, "Aero", "Rear Bumper")
        rearWing == getUpgradeString(u, "Aero", "Rear Wing")
    IN [t6 EXCEPT !.downforce_rear = @ + (IF rearBumper = sSport THEN 15 ELSE 0)
                                       + (IF rearBumper = sRace THEN 30 ELSE 0)
                                       + (IF rearWing = sSport THEN 20 ELSE 0)
                                       + (IF rearWing = sRace THEN 40 ELSE 0)]

\* springs, anti-roll bars, brakes and aero upgrades
ApplyPlatformAero(t, u) ==
    LET springs == RawUpgrade(u, "Platform", "Springs")
        t1 == IF springs = Some(sRace)
              THEN [t EXCEPT !.spring_front = @ + 50, !.spring_rear = @ + 50]
              ELSE IF springs = Some(sRally)
              THEN [t EXCEPT !.spring_front = @ - 50, !.spring_rear = @ - 50,
                             !.ride_height_front = @ + 3, !.ride_height_rear = @ + 3]
              ELSE t
        frontArb == getUpgradeString(u, "Platform", "Front ARB")
        t2 == IF frontArb # <<>> /\ frontArb # sStock
              THEN [t1 EXCEPT !.arb_front = RoundDiv(@ * ArbMult(frontArb), 100)] ELSE t1
        rearArb == getUpgradeString(u, "Platform", "Rear ARB")
        t3 == IF rearArb # <<>> /\ rearArb # sStock
              THEN [t2 EXCEPT !.arb_rear = RoundDiv(@ * ArbMult(rearArb), 100)] ELSE t2
        brakesUpgrade == getUpgradeString(u, "Platform", "Brakes")
        delta == IF brakesUpgrade = sStreet THEN 3 ELSE IF brakesUpgrade = sSport THEN 6
                 ELSE IF brakesUpgrade = sRace THEN 10 ELSE 0
        t4 == IF brakesUpgrade # <<>> /\ brakesUpgrade # sStock
              THEN [t3 EXCEPT !.brake_pressure = clamp(@ + delta, 80, 140)] ELSE t3
        t5 == IF RawUpgrade(u, "Aero", "Rear Wing") = Some(sRace)
              THEN [t4 EXCEPT !.downforce_rear = @ + 50] ELSE t4
        frontBumper == getUpgradeString(u, "Aero", "Front Bumper")
        t6 == [t5 EXCEPT !.downforce_front = @ + (IF frontBumper = sSport THEN 20 ELSE 0)
                                               + (IF frontBumper = sRace THEN 40 ELSE 0)]
        rearBumper == getUpgradeString(u, "Aero", "Rear Bumper")
        rearWing == getUpgradeString(u, "Aero", "Rear Wing")
    IN [t6 EXCEPT !.downforce_rear = @ + (IF rearBumper = sSport THEN 15 ELSE 0)
                                       + (IF rearBumper = sRace THEN 30 ELSE 0)
                                       + (IF rearWing = sSport THEN 20 ELSE 0)]

\* variant that picks the pressure shift by the front selection first
ApplyTireCompound_frontFirst(t, u) ==
    LET frontCompound == getUpgradeString(u, "Tires", "Front Compound")
        rearCompound == getUpgradeString(u, "Tires", "Rear Compound")
        chosenFront == IF frontCompound # <<>> /\ frontCompound # sStock THEN frontCompound ELSE <<>>
        chosenRear == IF rearCompound # <<>> /\ rearCompound # sStock THEN rearCompound ELSE <<>>
        label == IF chosenFront # <<>> /\ chosenRear # <<>>
                 THEN (IF chosenFront = chosenRear THEN chosenFront ELSE sMixed)
                 ELSE (IF chosenFront # <<>> THEN chosenFront ELSE chosenRear)
        compound == ToLowerCase(IF chosenFront # <<>> THEN chosenFront ELSE chosenRear)
        df == IF Includes(compound, <<"r", "a", "c", "e">>) THEN -1
              ELSE IF Includes(compound, <<"r", "a", "l", "l", "y">>) \/ Includes(compound, <<"o", "f", "f", "r", "o", "a", "d">>) THEN -2
              ELSE IF Includes(compound, <<"d", "r", "i", "f", "t">>) THEN 1
              ELSE 0
        dr == IF Includes(compound, <<"r", "a", "c", "e">>) THEN -1
              ELSE IF Includes(compound, <<"r", "a", "l", "l", "y">>) \/ Includes(compound, <<"o", "f", "f", "r", "o", "a", "d">>) THEN -2
              ELSE IF Includes(compound, <<"d", "r", "i", "f", "t">>) THEN -1
              ELSE 0
    IN IF chosenFront # <<>> \/ chosenRear # <<>>
       THEN [t EXCEPT !.tire_compound = label,
                      !.tire_pressure_front = IF df # 0 THEN clamp(@ + df, 15, 40) ELSE @,
                      !.tire_pressure_rear = IF dr # 0 THEN clamp(@ + dr, 15, 40) ELSE @]
       ELSE t

\* mutant: 'Stock' counted as a chosen compound
ApplyTireCompound_stockChosen(t, u) ==
    LET frontCompound == getUpgradeString(u, "Tires", "Front Compound")
        rearCompound == getUpgradeString(u, "Tires", "Rear Compound")
        chosenFront == IF frontCompound # <<>> THEN frontCompound ELSE <<>>
        chosenRear == IF rearCompound # <<>> THEN rearCompound ELSE <<>>
        label == IF chosenFront # <<>> /\ chosenRear # <<>>
                 THEN (IF chosenFront = chosenRear THEN chosenFront ELSE sMixed)
                 ELSE (IF chosenFront # <<>> THEN chosenFront ELSE chosenRear)
        compound == ToLowerCase(IF chosenRear # <<>> THEN chosenRear ELSE chosenFront)
        df == IF Includes(compound, <<"r", "a", "c", "e">>) THEN -1
              ELSE IF Includes(compound, <<"r", "a", "l", "l", "y">>) \/ Includes(compound, <<"o", "f", "f", "r", "o", "a", "d">>) THEN -2
              ELSE IF Includes(compound, <<"d", "r", "i", "f", "t">>) THEN 1
              ELSE 0
        dr == IF Includes(compound, <<"r", "a", "c", "e">>) THEN -1
              ELSE IF Includes(compound, <<"r", "a", "l", "l", "y">>) \/ Includes(compound, <<"o", "f", "f", "r", "o", "a", "d">>) THEN -2
              ELSE IF Includes(compound, <<"d", "r", "i", "f", "t">>) THEN -1
              ELSE 0
    IN IF chosenFront # <<>> \/ chosenRear # <<>>
       THEN [t EXCEPT !.tire_compound = label,
                      !.tire_pressure_front = IF df # 0 THEN clamp(@ + df, 15, 40) ELSE @,
                      !.tire_pressure_rear = IF dr # 0 THEN clamp(@ + dr, 15, 40) ELSE @]
       ELSE t

ApplyTireCompound(t, u) ==
    LET frontCompound == getUpgradeString(u, "Tires", "Front Compound")
        rearCompound == getUpgradeString(u, "Tires", "Rear Compound")
        chosenFront == IF frontCompound # <<>> /\ frontCompound # sStock THEN frontCompound ELSE <<>>
        chosenRear == IF rearCompound # <<>> /\ rearCompound # sStock THEN rearCompound ELSE <<>>
        label == IF chosenFront # <<>> /\ chosenRear # <<>>
                 THEN (IF chosenFront = chosenRear THEN chosenFront ELSE sMixed)
                 ELSE (IF chosenFront # <<>> THEN chosenFront ELSE chosenRear)
        compound == ToLowerCase(IF chosenRear # <<>> THEN chosenRear ELSE chosenFront)
        df == IF Includes(compound, <<"r", "a", "c", "e">>) THEN -1
              ELSE IF Includes(compound, <<"r", "a", "l", "l", "y">>) \/ Includes(compound, <<"o", "f", "f", "r", "o", "a", "d">>) THEN -2
              ELSE IF Includes(compound, <<"d", "r", "i", "f", "t">>) THEN 1
              ELSE 0
        dr == IF Includes(compound, <<"r", "a", "c", "e">>) THEN -1
              ELSE IF Includes(compound, <<"r", "a", "l", "l", "y">>) \/ Includes(compound, <<"o", "f", "f", "r", "o", "a", "d">>) THEN -2
              ELSE IF Includes(compound, <<"d", "r", "i", "f", "t">>) THEN -1
              ELSE 0
    IN IF chosenFront # <<>> \/ chosenRear # <<>>
       THEN [t EXCEPT !.tire_compound = label,
                      !.tire_pressure_front = IF df # 0 THEN clamp(@ + df, 15, 40) ELSE @,
                      !.tire_pressure_rear = IF dr # 0 THEN clamp(@ + dr, 15, 40) ELSE @]
       ELSE t

\* mutant: the deltas added without the clamp to [0,100]
ApplyDifferentialUpgrade_noClamp(t, u) ==
    LET diffUpgrade == getUpgradeString(u, "Drivetrain", "Differential")
        accelDelta == IF diffUpgrade = sSport THEN 5 ELSE IF diffUpgrade = sRace THEN 10
                      ELSE IF diffUpgrade = sRally \/ diffUpgrade = sOffRoad THEN 6
                      ELSE IF diffUpgrade = sDrift THEN 12 ELSE 0
        decelDelta == IF diffUpgrade = sSport THEN 2 ELSE IF diffUpgrade = sRace THEN 4
                      ELSE IF diffUpgrade = sRally \/ diffUpgrade = sOffRoad THEN 3
                      ELSE IF diffUpgrade = sDrift THEN 1 ELSE 0
    IN IF diffUpgrade # <<>> /\ diffUpgrade # sStock
       THEN [t EXCEPT !.differential_accel = @ + accelDelta,
                      !.differential_decel = @ + decelDelta]
       ELSE t

ApplyDifferentialUpgrade(t, u) ==
    LET diffUpgrade == getUpgradeString(u, "Drivetrain", "Differential")
        accelDelta == IF diffUpgrade = sSport THEN 5 ELSE IF diffUpgrade = sRace THEN 10
                      ELSE IF diffUpgrade = sRally \/ diffUpgrade = sOffRoad THEN 6
                      ELSE IF diffUpgrade = sDrift THEN 12 ELSE 0
        decelDelta == IF diffUpgrade = sSport THEN 2 ELSE IF diffUpgrade = sRace THEN 4
                      ELSE IF diffUpgrade = sRally \/ diffUpgrade = sOffRoad THEN 3
                      ELSE IF diffUpgrade = sDrift THEN 1 ELSE 0
    IN IF diffUpgrade # <<>> /\ diffUpgrade # sStock
       THEN [t EXCEPT !.differential_accel = clamp(@ + accelDelta, 0, 100),
                      !.differential_decel = clamp(@ + decelDelta, 0, 100)]
       ELSE t

\* variant that sets the turbo map of a forced-induction conversion outright
ApplyAspiration_assign(t, u) ==
    LET convAsp == getUpgradeString(u, "Conversion", "Aspiration")
        engAspLevel == getUpgradeString(u, "Engine", "Aspiration")
        convLower == ToLowerCase(convAsp)
    IN IF convAsp # <<>> /\ convAsp # sStock
       THEN IF Includes(convLower, <<"t", "u", "r", "b", "o">>)
            THEN [t EXCEPT !.turbo_map = IF engAspLevel = sAntiLag THEN 100 ELSE 90]
            ELSE IF Includes(convLower, <<"s", "u", "p", "e", "r", "c", "h", "a", "r", "g", "e", "r">>)
            THEN [t EXCEPT !.turbo_map = 95]
            ELSE t
       ELSE t

ApplyAspiration(t, u) ==
    LET convAsp == getUpgradeString(u, "Conversion", "Aspiration")
        engAspLevel == getUpgradeString(u, "Engine", "Aspiration")
        convLower == ToLowerCase(convAsp)
    IN IF convAsp # <<>> /\ convAsp # sStock
       THEN IF Includes(convLower, <<"t", "u", "r", "b", "o">>)
            THEN [t EXCEPT !.turbo_map = IF engAspLevel = sAntiLag THEN 100 ELSE Max(@, 90)]
            ELSE IF Includes(convLower, <<"s", "u", "p", "e", "r", "c", "h", "a", "r", "g", "e", "r">>)
            THEN [t EXCEPT !.turbo_map = Max(@, 95)]
            ELSE t
       ELSE t

\* mutant: the wet camber step typed as 3.0 instead of 0.3
applyWeatherModifiers_camberTypo(t, w) ==
    IF w = "Wet"
    THEN [t EXCEPT !.tire_pressure_front = @ - 2,
                   !.tire_pressure_rear = @ - 2,
                   !.differential_accel = Max(10, @ - 10),
                   !.camber_front = @ - 300,
                   !.camber_rear = @ - 300,
                   !.toe_rear = @ + 5,
                   !.downforce_front = @ + 20,
                   !.downforce_rear = @ + 30,
                   !.traction_control_level = Min(2, @ + 1)]
    ELSE t

\* mutant: the wet floor of differential_accel at 15 instead of 10
applyWeatherModifiers_floor15(t, w) ==
    IF w = "Wet"
    THEN [t EXCEPT !.tire_pressure_front = @ - 2,
                   !.tire_pressure_rear = @ - 2,
                   !.differential_accel = Max(15, @ - 10),
                   !.camber_front = @ - 30,
                   !.camber_rear = @ - 30,
                   !.toe_rear = @ + 5,
                   !.downforce_front = @ + 20,
                   !.downforce_rear = @ + 30,
                   !.traction_control_level = Min(2, @ + 1)]
    ELSE t

\* variant that also toes the front wheels out in the wet
applyWeatherModifiers_toeFront(t, w) ==
    IF w = "Wet"
    THEN [t EXCEPT !.tire_pressure_front = @ - 2,
                   !.tire_pressure_rear = @ - 2,
                   !.differential_accel = Max(10, @ - 10),
                   !.camber_front = @ - 30,
                   !.camber_rear = @ - 30,
                   !.toe_front = @ + 5,
                   !.toe_rear = @ + 5,
                   !.downforce_front = @ + 20,
                   !.downforce_rear = @ + 30,
                   !.traction_control_level = Min(2, @ + 1)]
    ELSE t

applyWeatherModifiers(t, w) ==
    IF w = "Wet"
    THEN [t EXCEPT !.tire_pressure_front = @ - 2,
                   !.tire_pressure_rear = @ - 2,
                   !.differential_accel = Max(10, @ - 10),
                   !.camber_front = @ - 30,
                   !.camber_rear = @ - 30,
                   !.toe_rear = @ + 5,
                   !.downforce_front = @ + 20,
                   !.downforce_rear = @ + 30,
                   !.traction_control_level = Min(2, @ + 1)]
    ELSE t

\* variant that computes the damping from the springs after the platform
\* upgrades
calculateTune_dampingLast(c, u, style, w) ==
    LET effectiveCar == EffectiveCar(c, u)
        t0 == Assemble(effectiveCar, style)
        t1 == NormalizeGearCount(t0, effectiveCar, u)
        t2 == ManualOverride(t1, u)
        t3 == ApplyPlatformAero(t2, u)
        damped == calculateDamping(effectiveCar, t3, style) @@ t3
        t4 == ApplyTireCompound(damped, u)
        t5 == ApplyDifferentialUpgrade(t4, u)
        t6 == ApplyAspiration(t5, u)
    IN applyWeatherModifiers(t6, w)

calculateTune(c, u, style, w) ==
    LET effectiveCar == EffectiveCar(c, u)
        t0 == Assemble(effectiveCar, style)
        t1 == NormalizeGearCount(t0, effectiveCar, u)
        t2 == ManualOverride(t1, u)
        t3 == ApplyPlatformAero(t2, u)
        t4 == ApplyTireCompound(t3, u)
        t5 == ApplyDifferentialUpgrade(t4, u)
        t6 == ApplyAspiration(t5, u)
    IN applyWeatherModifiers(t6, w)

-----------------------------------------------------------------------------
(* The rule-based tuner of src/utils/tuner.js: a preset table at module    *)
(* scope and calculateTune(formData, tuneType, weather), which the App     *)
(* component calls on every render.  formData has the shape of an upgrade  *)
(* selection.                                                              *)

\* the literal of TUNE_PRESETS; ratios, cambers, toes and turbo_map in
\* hundredths, damping in tenths
TunePresetsAtLoad ==
    ("Road" :> 
      [final_drive |-> 320, gear_ratios |-> <<280, 190, 140, 110, 90, 75>>,
        differential_accel |-> 50, differential_decel |-> 20, differential_preload |-> 30,
        brake_bias |-> 52, spring_front |-> 450, spring_rear |-> 400, arb_front |-> 25,
        arb_rear |-> 22, ride_height_front |-> 10, ride_height_rear |-> 11, camber_front |-> -150,
        camber_rear |-> -120, toe_front |-> 0, toe_rear |-> 10, damping_rebound_front |-> 80,
        damping_rebound_rear |-> 75, damping_compression_front |-> 65,
        damping_compression_rear |-> 60, tire_pressure_front |-> 32, tire_pressure_rear |-> 30,
        downforce_front |-> 100, downforce_rear |-> 150, turbo_map |-> 80,
        traction_control_level |-> 1, abs_level |-> 1])
    @@ ("Race" :> 
      [final_drive |-> 350, gear_ratios |-> <<300, 210, 150, 120, 100, 85>>,
        differential_accel |-> 75, differential_decel |-> 15, differential_preload |-> 40,
        brake_bias |-> 55, spring_front |-> 600, spring_rear |-> 550, arb_front |-> 30,
        arb_rear |-> 28, ride_height_front |-> 6, ride_height_rear |-> 7, camber_front |-> -250,
        camber_rear |-> -200, toe_front |-> -10, toe_rear |-> 20, damping_rebound_front |-> 100,
        damping_rebound_rear |-> 95, damping_compression_front |-> 80,
        damping_compression_rear |-> 75, tire_pressure_front |-> 30, tire_pressure_rear |-> 28,
        downforce_front |-> 200, downforce_rear |-> 300, turbo_map |-> 90,
        traction_control_level |-> 0, abs_level |-> 0])
    @@ ("Drift" :> 
      [final_drive |-> 420, gear_ratios |-> <<350, 240, 170, 130, 105, 90>>,
        differential_accel |-> 15, differential_decel |-> 5, differential_preload |-> 10,
        brake_bias |-> 60, spring_front |-> 500, spring_rear |-> 480, arb_front |-> 20,
        arb_rear |-> 15, ride_height_front |-> 12, ride_height_rear |-> 13, camber_front |-> -300,
        camber_rear |-> -250, toe_front |-> 0, toe_rear |-> 30, damping_rebound_front |-> 70,
        damping_rebound_rear |-> 65, damping_compression_front |-> 55,
        damping_compression_rear |-> 50, tire_pressure_front |-> 28, tire_pressure_rear |-> 26,
        downforce_front |-> 50, downforce_rear |-> 80, turbo_map |-> 100,
        traction_control_level |-> 0, abs_level |-> 0])
    @@ ("Offroad" :> 
      [final_drive |-> 380, gear_ratios |-> <<320, 220, 160, 125, 100, 82>>,
        differential_accel |-> 60, differential_decel |-> 30, differential_preload |-> 35,
        brake_bias |-> 50, spring_front |-> 350, spring_rear |-> 320, arb_front |-> 18,
        arb_rear |-> 16, ride_height_front |-> 18, ride_height_rear |-> 19, camber_front |-> -100,
        camber_rear |-> -80, toe_front |-> 0, toe_rear |-> 10, damping_rebound_front |-> 90,
        damping_rebound_rear |-> 85, damping_compression_front |-> 70,
        damping_compression_rear |-> 65, tire_pressure_front |-> 26, tire_pressure_rear |-> 24,
        downforce_front |-> 0, downforce_rear |-> 0, turbo_map |-> 85,
        traction_control_level |-> 2, abs_level |-> 1])
    @@ ("Rally" :> 
      [final_drive |-> 360, gear_ratios |-> <<310, 215, 155, 122, 98, 80>>,
        differential_accel |-> 65, differential_decel |-> 25, differential_preload |-> 38,
        brake_bias |-> 51, spring_front |-> 380, spring_rear |-> 350, arb_front |-> 20,
        arb_rear |-> 18, ride_height_front |-> 15, ride_height_rear |-> 16, camber_front |-> -150,
        camber_rear |-> -120, toe_front |-> 0, toe_rear |-> 15, damping_rebound_front |-> 85,
        damping_rebound_rear |-> 80, damping_compression_front |-> 68,
        damping_compression_rear |-> 63, tire_pressure_front |-> 27, tire_pressure_rear |-> 25,
        downforce_front |-> 80, downforce_rear |-> 120, turbo_map |-> 88,
        traction_control_level |-> 1, abs_level |-> 1])
    @@ ("Cruise" :> 
      [final_drive |-> 300, gear_ratios |-> <<260, 180, 130, 105, 88, 72>>,
        differential_accel |-> 45, differential_decel |-> 25, differential_preload |-> 28,
        brake_bias |-> 53, spring_front |-> 400, spring_rear |-> 380, arb_front |-> 22,
        arb_rear |-> 20, ride_height_front |-> 12, ride_height_rear |-> 13, camber_front |-> -100,
        camber_rear |-> -80, toe_front |-> 0, toe_rear |-> 5, damping_rebound_front |-> 75,
        damping_rebound_rear |-> 70, damping_compression_front |-> 60,
        damping_compression_rear |-> 55, tire_pressure_front |-> 33, tire_pressure_rear |-> 31,
        downforce_front |-> 60, downforce_rear |-> 90, turbo_map |-> 75,
        traction_control_level |-> 2, abs_level |-> 2])
    @@ ("Drag" :> 
      [final_drive |-> 450, gear_ratios |-> <<380, 260, 185, 140, 115, 95>>,
        differential_accel |-> 100, differential_decel |-> 10, differential_preload |-> 50,
        brake_bias |-> 70, spring_front |-> 550, spring_rear |-> 650, arb_front |-> 15,
        arb_rear |-> 10, ride_height_front |-> 5, ride_height_rear |-> 8, camber_front |-> -200,
        camber_rear |-> -150, toe_front |-> 0, toe_rear |-> 0, damping_rebound_front |-> 95,
        damping_rebound_rear |-> 100, damping_compression_front |-> 75,
        damping_compression_rear |-> 80, tire_pressure_front |-> 35, tire_pressure_rear |-> 22,
        downforce_front |-> 0, downforce_rear |-> 0, turbo_map |-> 100,
        traction_control_level |-> 0, abs_level |-> 0])

WET_MODIFIERS ==
    [tire_pressure_front |-> -2, tire_pressure_rear |-> -2, differential_accel |-> -10,
     camber_front |-> -30, camber_rear |-> -30, toe_rear |-> 5,
     downforce_front |-> 20, downforce_rear |-> 30, traction_control_level |-> 1]

\* parseFloat(s): leading white space is skipped and the longest prefix of
\* the form [sign] digits [. digits] is the number, whatever follows it;
\* without a digit the result is NaN (None).  The value is in hundredths;
\* the modelled texts carry at most two fraction digits, no exponent and
\* no Infinity literal.
parseFloat(s) ==
    LET b0 == SkipSpace(s, 1)
        signed == b0 <= Len(s) /\ s[b0] \in {"-", "+"}
        neg == signed /\ s[b0] = "-"
        b == IF signed THEN b0 + 1 ELSE b0
        e == SkipDigits(s, b)
        hasDot == e <= Len(s) /\ s[e] = "."
        fb == IF hasDot THEN e + 1 ELSE e
        fe == SkipDigits(s, fb)
        nInt == e - b
        nFrac == fe - fb
        frac == IF nFrac = 0 THEN 0
                ELSE IF nFrac = 1 THEN DigitVal(s[fb]) * 10
                ELSE DigitVal(s[fb]) * 10 + DigitVal(s[fb + 1])
        mag == DigitsValue(s, b, e) * 100 + frac
    IN IF nInt + nFrac >= 1 THEN Some(IF neg THEN 0 - mag ELSE mag) ELSE None

\* formData[section]?.[part] is a non-empty text
FormHas(formData, section, part) ==
    HasUpgrade(formData, section, part) /\ formData[<<section, part>>] # <<>>

\* formData[section]?.[part] === text
FormIs(formData, section, part, text) ==
    HasUpgrade(formData, section, part) /\ formData[<<section, part>>] = text

\* the preset a call starts from: TUNE_PRESETS[tuneType] || TUNE_PRESETS.Road
PresetKey(presets, type) == IF type \in DOMAIN presets THEN type ELSE "Road"

\* tune[key] += WET_MODIFIERS[key] for every key of the modifiers
ApplyWetModifiers(t) ==
    [k \in DOMAIN t |-> IF k \in DOMAIN WET_MODIFIERS THEN t[k] + WET_MODIFIERS[k] ELSE t[k]]

sNoTurbo == <<"N", "o", "n", "e">>

\* the adjustments by selected parts
ApplyFormParts(t, formData) ==
    LET boosted == IF FormHas(formData, "Engine", "Turbo") /\ ~FormIs(formData, "Engine", "Turbo", sNoTurbo)
                   THEN [t EXCEPT !.turbo_map = Min(100, @ + 5)]
                   ELSE t
        sprung == IF FormIs(formData, "Platform", "Springs", sRace)
                  THEN [boosted EXCEPT !.spring_front = @ + 50, !.spring_rear = @ + 50]
                  ELSE IF FormIs(formData, "Platform", "Springs", sRally)
                  THEN [boosted EXCEPT !.spring_front = @ - 50, !.spring_rear = @ - 50,
                                       !.ride_height_front = @ + 3, !.ride_height_rear = @ + 3]
                  ELSE IF FormIs(formData, "Platform", "Springs", sDrift)
                  THEN [boosted EXCEPT !.differential_accel = @ - 5]
                  ELSE boosted
        winged == IF FormIs(formData, "Aero", "Rear Wing", sRace)
                  THEN [sprung EXCEPT !.downforce_rear = @ + 50]
                  ELSE sprung
    IN IF FormIs(formData, "Drivetrain", "Differential", sRace)
       THEN [winged EXCEPT !.differential_accel = @ + 5]
       ELSE winged

\* the manual final drive, taken when it parses to a number in 2.0 .. 5.0
ApplyFormFinalDrive(t, formData) ==
    LET fd == IF FormHas(formData, "Tuning", "Final Drive")
              THEN parseFloat(formData[<<"Tuning", "Final Drive">>])
              ELSE None
    IN IF fd # None /\ fd[1] >= 200 /\ fd[1] <= 500 THEN [t EXCEPT !.final_drive = fd[1]] ELSE t

\* gear_ratios after the override loop over 'Gear 1 Ratio' .. 'Gear 6 Ratio'
FormGearRatios(ratios, formData) ==
    [i \in 1..6 |->
        LET ratio == IF FormHas(formData, "Tuning", GearKey(i))
                     THEN parseFloat(formData[<<"Tuning", GearKey(i)>>])
                     ELSE None
        IN IF ratio # None /\ ratio[1] > 0 THEN ratio[1] ELSE ratios[i]]

\* the table after a call: { ...preset } copies the fields of the preset
\* but shares its gear_ratios array, so the override loop writes through
\* tune.gear_ratios into the preset
PresetsAfterCall(presets, formData, type) ==
    [presets EXCEPT ![PresetKey(presets, type)].gear_ratios = FormGearRatios(@, formData)]

\* the tune returned by calculateTune(formData, tuneType, weather) when the
\* table holds presets
TunerResult(presets, formData, type, w) ==
    LET preset == presets[PresetKey(presets, type)]
        modified == IF w = "Wet" THEN ApplyWetModifiers(preset) ELSE preset
        adjusted == ApplyFormFinalDrive(ApplyFormParts(modified, formData), formData)
    IN [adjusted EXCEPT !.gear_ratios = FormGearRatios(@, formData)]

-----------------------------------------------------------------------------
(* The caller: the calculator page and the tests hold a car, an upgrade    *)
(* selection, a style and a weather, call calculateTune and keep results.  *)

Car(drivetrain, power_hp, weight_lbs, pi, gears, wd) ==
    [drivetrain |-> drivetrain, power_hp |-> power_hp, weight_lbs |-> weight_lbs, pi |-> pi,
     gears |-> gears, weight_distribution_front |-> wd]

gtrR35 == Car("AWD", 565, 3865, 800, None, None)
porsche911GT3 == Car("RWD", 520, 3153, 898, None, None)
civicTypeR == Car("FWD", 306, 3117, 655, None, None)

\* handleCalculate: one call of calculateTune on the current selection
CalculateTune ==
    /\ args' = Some([car |-> car, upgrades |-> upgrades, tuneType |-> tuneType, weather |-> weather])
    /\ tune' = Some(calculateTune(car, upgrades, tuneType, weather))
    /\ car' = CallerCarAfter(car, upgrades)
    /\ upgrades' = CallerUpgradesAfter(car, upgrades)
    /\ UNCHANGED <<tuneType, weather, prev, TUNE_PRESETS, legacy>>

\* the caller keeps the result of the last call to compare a later one with
KeepResult ==
    /\ tune # None
    /\ prev' = Some([args |-> args[1], tune |-> tune[1]])
    /\ UNCHANGED <<car, upgrades, tuneType, weather, tune, args, TUNE_PRESETS, legacy>>

SetWeather(w) ==
    /\ weather' = w
    /\ UNCHANGED <<car, upgrades, tuneType, tune, args, prev, TUNE_PRESETS, legacy>>

SetTuneType(s) ==
    /\ tuneType' = s
    /\ UNCHANGED <<car, upgrades, weather, tune, args, prev, TUNE_PRESETS, legacy>>

SelectCar(c) ==
    /\ car' = c
    /\ UNCHANGED <<upgrades, tuneType, weather, tune, args, prev, TUNE_PRESETS, legacy>>

handlePartChange(section, part, value) ==
    /\ upgrades' = Sel(section, part, value) @@ upgrades
    /\ UNCHANGED <<car, tuneType, weather, tune, args, prev, TUNE_PRESETS, legacy>>

\* the tuner's own calculateTune, called with the component's formData, tune
\* type and weather; the call and its result are kept
TunerCalculateTune(formData, type, w) ==
    /\ legacy' = Some([formData |-> formData, tuneType |-> type, weather |-> w,
                       tune |-> TunerResult(TUNE_PRESETS, formData, type, w)])
    /\ TUNE_PRESETS' = PresetsAfterCall(TUNE_PRESETS, formData, type)
    /\ UNCHANGED <<car, upgrades, tuneType, weather, tune, args, prev>>

\* nothing has been calculated yet and the preset table is as loaded
NoCallYet ==
    /\ tune = None /\ args = None /\ prev = None
    /\ TUNE_PRESETS = TunePresetsAtLoad /\ legacy = None

-----------------------------------------------------------------------------
(* Texts the caller can put into the selection *)

\* decimal digits of a number below 100
DecimalChars(n) == IF n >= 10 THEN <<Digits[(n \div 10) + 1], Digits[(n % 10) + 1]>> ELSE <<Digits[n + 1]>>

\* the transmission option "Race: n Speed"
RaceSpeed(n) == <<"R", "a", "c", "e", ":", " ">> \o DecimalChars(n) \o <<" ", "S", "p", "e", "e", "d">>

sDriftSpeed == <<"D", "r", "i", "f", "t", ":", " ", "4", " ", "S", "p", "e", "e", "d">>
sRaceLower == <<" ", "r", "a", "c", "e", ":", "1", "0", "s", "p", "e", "e", "d">>

\* a number of hundredths written with two decimals, as typed into a tuning field
RatioText(v) == DecimalChars(v \div 100) \o <<".">> \o <<Digits[((v % 100) \div 10) + 1], Digits[(v % 10) + 1]>>

sBlank == <<" ", " ">>
sWord == <<"a", "b", "c">>
sPadded == <<" ", "2", ".", "5", " ">>
sNegative == <<"-", "1">>

\* the manual ratio typed for gear i
OverrideRatio(i) == 400 - 30 * i

\* 'Gear i Ratio' entries for i in 1..k; entry bad, when in 1..k, holds
\* badText instead of a ratio or, with badText = None, is left out
GearOverrides(k, bad, badText) ==
    [key \in {<<"Tuning", GearKey(i)>> : i \in {j \in 1..k : ~(j = bad /\ badText = None)}} |->
        LET i == CHOOSE j \in 1..k : GearKey(j) = key[2]
        IN IF i = bad THEN badText[1] ELSE RatioText(OverrideRatio(i))]

HasGearOverride(u) == \E i \in 1..20 : HasUpgrade(u, "Tuning", GearKey(i))

\* the selection without its 'Gear i Ratio' entries
WithoutGearOverrides(u) == [key \in {k \in DOMAIN u : ~(\E i \in 1..20 : k = <<"Tuning", GearKey(i)>>)} |-> u[key]]

\* the selection without one entry
Without(u, section, part) == [key \in (DOMAIN u) \ {<<section, part>>} |-> u[key]]

-----------------------------------------------------------------------------
(* Gearing specification: every style and weather, native gear counts and  *)
(* transmissions around the 4..10 window, manual gear-ratio entries.       *)

MaxSpeed == 11

MaxOverrideKeys == 10

GearTransmissions ==
    {RaceSpeed(n) : n \in 3..MaxSpeed} \cup {sDriftSpeed, sRaceLower, sStock}

GearSelections ==
    {NoUpgrades} \cup {Sel("Drivetrain", "Transmission", t) : t \in GearTransmissions}

GearOverrideSets ==
    {NoUpgrades, GearOverrides(6, 0, None), GearOverrides(MaxOverrideKeys, 0, None),
     GearOverrides(MaxOverrideKeys, 1, None), GearOverrides(MaxOverrideKeys, 4, Some(sBlank)),
     GearOverrides(MaxOverrideKeys, 2, Some(sWord))}

GearCars == {Car("AWD", 565, 3860, 800, g, None) : g \in {None, Some(30), Some(40), Some(45), Some(95), Some(110)}}

InitGear ==
    /\ car \in GearCars
    /\ upgrades \in {o @@ t : o \in GearOverrideSets, t \in GearSelections}
    /\ tuneType \in Styles
    /\ weather \in Weathers
    /\ NoCallYet

NextGear == CalculateTune

SpecGear == InitGear /\ [][NextGear]_vars

\* the ratios of a list fall strictly from each gear to the next
StrictlyDecreasing(r) == \A i \in 1..(Len(r) - 1) : r[i] > r[i + 1]

\* C1: without a manual gear-ratio entry the gear_ratios returned by
\* calculateTune are strictly decreasing, for every style, weather, native
\* gear count and transmission, also across the boundary between the six
\* table ratios and the ratios synthesized by the x0.88 extension.
C1_GearRatiosStrictlyDecreasing ==
    (tune # None /\ ~HasGearOverride(args[1].upgrades)) => StrictlyDecreasing(tune[1].gear_ratios)

\* a ten-speed list was synthesized and returned
C1_Witness ==
    /\ tune # None
    /\ ~HasGearOverride(args[1].upgrades)
    /\ Len(tune[1].gear_ratios) = 10
    /\ tune[1].gear_ratios[7] < tune[1].gear_ratios[6]

\* entry i of the selection is the ratio typed for gear i
ValidGearEntry(u, i) == HasUpgrade(u, "Tuning", GearKey(i)) /\ u[<<"Tuning", GearKey(i)>>] = RatioText(OverrideRatio(i))

\* the gear_ratios of the same call made without any 'Gear i Ratio' entry
ComputedRatios(a) == calculateTune(a.car, WithoutGearOverrides(a.upgrades), a.tuneType, a.weather).gear_ratios

\* C7: the manual gear-ratio override is all-or-nothing over the gear count
\* n obtained after gear-count normalization: when 'Gear i Ratio' is present
\* and numeric for every i in 1..n, gear_ratios is exactly those n values in
\* order; when one of them is missing, blank or not a number, gear_ratios is
\* exactly the computed list.
C7_OverrideAllOrNothing ==
    tune # None =>
        LET u == args[1].upgrades
            computed == ComputedRatios(args[1])
            n == Len(computed)
        IN IF \A i \in 1..n : ValidGearEntry(u, i)
           THEN tune[1].gear_ratios = [i \in 1..n |-> OverrideRatio(i)]
           ELSE tune[1].gear_ratios = computed

\* seven of ten typed ratios replaced a seven-speed list
C7_Witness ==
    /\ tune # None
    /\ Len(ComputedRatios(args[1])) = 7
    /\ \A i \in 1..10 : ValidGearEntry(args[1].upgrades, i)
    /\ tune[1].gear_ratios = [i \in 1..7 |-> OverrideRatio(i)]
    /\ tune[1].gear_ratios # ComputedRatios(args[1])

\* the gear count a transmission text of the gearing specification asks
\* for: n for "Race: n Speed" (any spelling of it), None for the others
RaceSpeedOf(t) ==
    IF \E n \in 0..MaxSpeed : t = RaceSpeed(n) THEN Some(CHOOSE n \in 0..MaxSpeed : t = RaceSpeed(n))
    ELSE IF t = sRaceLower THEN Some(10)
    ELSE None

\* the target gear count by the resolution order (a)-(d), with the native
\* count of (c) taken as it is (nativeAsIs) or rounded to a whole number;
\* in tenths
ResolvedTarget(a, nativeAsIs) ==
    LET t == IF HasUpgrade(a.upgrades, "Drivetrain", "Transmission") THEN a.upgrades[<<"Drivetrain", "Transmission">>] ELSE <<>>
        n == RaceSpeedOf(t)
        g == a.car.gears
    IN IF n # None /\ n[1] >= 4 /\ n[1] <= 10 THEN n[1] * 10
       ELSE IF t = sDriftSpeed THEN 40
       ELSE IF g # None /\ g[1] >= 40 /\ g[1] <= 100 THEN (IF nativeAsIs THEN g[1] ELSE RoundDiv(g[1], 10) * 10)
       ELSE 60

\* C9 as claimed: the length of gear_ratios equals the target resolved in
\* the order (a) "Race: N Speed" with N in 4..10, (b) "Drift: 4 Speed",
\* (c) the car's native gear count when in [4,10], (d) 6, and lies in 4..10.
C9_Original ==
    tune # None =>
        /\ Len(tune[1].gear_ratios) * 10 = ResolvedTarget(args[1], TRUE)
        /\ Len(tune[1].gear_ratios) \in 4..10

\* C9, amended: as claimed, with the native gear count of (c) rounded to the
\* nearest whole number (halves upwards) when it is used.
C9_GearCountResolution ==
    tune # None =>
        /\ Len(tune[1].gear_ratios) * 10 = ResolvedTarget(args[1], FALSE)
        /\ Len(tune[1].gear_ratios) \in 4..10

\* a native count of 4.5 gave five ratios, and a "Race: 11 Speed" fell
\* through to the native count
C9_Witness ==
    /\ tune # None
    /\ args[1].car.gears = Some(45)
    /\ HasUpgrade(args[1].upgrades, "Drivetrain", "Transmission")
    /\ args[1].upgrades[<<"Drivetrain", "Transmission">>] = RaceSpeed(11)
    /\ HasGearOverride(args[1].upgrades)
    /\ Len(tune[1].gear_ratios) = 5

-----------------------------------------------------------------------------
(* Tire and drivetrain specification: every drivetrain, swap, style and    *)
(* weather with tire compound choices.                                     *)

sOffroadTire == <<"O", "f", "f", "r", "o", "a", "d">>
sSwapLower == <<"a", "w", "d">>

TireCars == {Car(d, 520, 3153, 898, None, None) : d \in Drivetrains}

SwapSelections == {NoUpgrades} \cup {Sel("Conversion", "Drivetrain Swap", t) : t \in {sRWD, sFWD, sAWD, s4WD, sStock, sSwapLower}}

FrontCompoundSelections == {NoUpgrades} \cup {Sel("Tires", "Front Compound", t) : t \in {sRace, sDrift}}

RearCompoundSelections == {NoUpgrades} \cup {Sel("Tires", "Rear Compound", t) : t \in {sStock, sRally, sDrift}}

InitTires ==
    /\ car \in TireCars
    /\ upgrades \in {x @@ f @@ r : x \in SwapSelections, f \in FrontCompoundSelections, r \in RearCompoundSelections}
    /\ tuneType \in Styles
    /\ weather \in Weathers
    /\ NoCallYet

NextTires == CalculateTune

SpecTires == InitTires /\ [][NextTires]_vars

\* C2: tire_pressure_front and tire_pressure_rear of every output are within
\* [15,40], for every drivetrain, swap, compound choice, style and weather,
\* although the Wet modifier subtracts 2 after the last clamp.
C2_TirePressuresInRange ==
    tune # None =>
        /\ tune[1].tire_pressure_front >= 15 /\ tune[1].tire_pressure_front <= 40
        /\ tune[1].tire_pressure_rear >= 15 /\ tune[1].tire_pressure_rear <= 40

\* the lowest pressure there is: Drag rear 22, RWD, Rally compound, Wet
C2_Witness ==
    /\ tune # None
    /\ args[1].weather = "Wet"
    /\ args[1].tuneType = "Drag"
    /\ HasUpgrade(args[1].upgrades, "Tires", "Rear Compound")
    /\ tune[1].tire_pressure_rear = 17

\* the three AWD fields of an output are all defined / all absent
AwdFieldsDefined(t) == t.center_diff # None /\ t.front_diff # None /\ t.rear_diff # None
AwdFieldsAbsent(t) == t.center_diff = None /\ t.front_diff = None /\ t.rear_diff = None

\* C3 as claimed: for every upgrade selection a car whose drivetrain is AWD
\* or 4WD gets center_diff, front_diff and rear_diff all defined, and a car
\* whose drivetrain is RWD or FWD gets all three absent.
C3_Original ==
    tune # None =>
        IF args[1].car.drivetrain \in {"AWD", "4WD"} THEN AwdFieldsDefined(tune[1]) ELSE AwdFieldsAbsent(tune[1])

\* the drivetrain the tune is computed for: the one named by a valid
\* Conversion 'Drivetrain Swap', else the car's own
SwappedDrivetrain(a) ==
    LET u == a.upgrades
        t == IF HasUpgrade(u, "Conversion", "Drivetrain Swap") THEN u[<<"Conversion", "Drivetrain Swap">>] ELSE <<>>
    IN IF t = sRWD THEN "RWD" ELSE IF t = sFWD THEN "FWD" ELSE IF t = sAWD THEN "AWD" ELSE IF t = s4WD THEN "4WD"
       ELSE a.car.drivetrain

\* C3, amended: the three AWD fields are all defined when the effective
\* drivetrain (the Conversion 'Drivetrain Swap' value when it is RWD, FWD,
\* AWD or 4WD, else the car's drivetrain) is AWD or 4WD, and all absent when
\* it is RWD or FWD.
C3_AwdFieldsFollowEffectiveDrivetrain ==
    tune # None =>
        IF SwappedDrivetrain(args[1]) \in {"AWD", "4WD"} THEN AwdFieldsDefined(tune[1]) ELSE AwdFieldsAbsent(tune[1])

\* a 4WD car swapped to RWD lost the fields
C3_Witness ==
    /\ tune # None
    /\ args[1].car.drivetrain = "4WD"
    /\ SwappedDrivetrain(args[1]) = "RWD"
    /\ AwdFieldsAbsent(tune[1])

\* C6: camber_front and camber_rear of every output are strictly negative
\* and strictly greater than -5, for every style, weather and selection.
C6_CamberRange ==
    tune # None =>
        /\ tune[1].camber_front < 0 /\ tune[1].camber_front > -500
        /\ tune[1].camber_rear < 0 /\ tune[1].camber_rear > -500

\* the most negative camber there is: Drift front in the wet, -3.3
C6_Witness ==
    /\ tune # None
    /\ args[1].weather = "Wet"
    /\ args[1].tuneType = "Drift"
    /\ tune[1].camber_front = -330

-----------------------------------------------------------------------------
(* Weather specification: a Dry result is kept, the weather is switched    *)
(* and the tune is calculated again.                                       *)

WeatherCars == {porsche911GT3, Car("AWD", 565, 3860, 800, None, None)}

DifferentialSelections == {NoUpgrades} \cup {Sel("Drivetrain", "Differential", t) : t \in {sSport, sDrift}}

WeatherSelections == {d @@ r : d \in DifferentialSelections, r \in {NoUpgrades, Sel("Tires", "Rear Compound", sRally)}}

InitWeather ==
    /\ car \in WeatherCars
    /\ upgrades \in WeatherSelections
    /\ tuneType \in Styles
    /\ weather = "Dry"
    /\ NoCallYet

NextWeather == CalculateTune \/ KeepResult \/ \E w \in Weathers : SetWeather(w)

SpecWeather == InitWeather /\ [][NextWeather]_vars

\* the kept result is the Dry result of the car, selection and style whose
\* Wet result is the current one
WetAfterDry ==
    /\ prev # None /\ tune # None
    /\ args[1].weather = "Wet"
    /\ prev[1].args = [args[1] EXCEPT !.weather = "Dry"]

\* C4: against the Dry output for identical car, upgrades and style, the
\* Wet output has strictly lower tire pressures and differential_accel,
\* strictly more negative cambers and strictly higher downforce.
C4_WetAgainstDry ==
    WetAfterDry =>
        LET wet == tune[1]
            dry == prev[1].tune
        IN /\ wet.tire_pressure_front < dry.tire_pressure_front
           /\ wet.tire_pressure_rear < dry.tire_pressure_rear
           /\ wet.differential_accel < dry.differential_accel
           /\ wet.camber_front < dry.camber_front
           /\ wet.camber_rear < dry.camber_rear
           /\ wet.downforce_front > dry.downforce_front
           /\ wet.downforce_rear > dry.downforce_rear



\* Drift in the wet: differential_accel went from 15 to the floor of 10
C4_Witness ==
    /\ WetAfterDry
    /\ prev[1].tune.differential_accel = 15
    /\ tune[1].differential_accel = 10

\* the fields the weather modifier may touch
WeatherFields ==
    {"tire_pressure_front", "tire_pressure_rear", "differential_accel",
     "camber_front", "camber_rear", "toe_rear", "downforce_front",
     "downforce_rear", "traction_control_level"}

\* C21: the weather modifier is applied last and touches only its own
\* fields: against the Dry output for identical car, upgrades and style, the
\* Wet output has both tire pressures 2 lower, differential_accel 10 lower
\* but not below 10, both cambers 0.3 lower, toe_rear 0.05 higher,
\* downforce_front 20 and downforce_rear 30 higher and the traction control
\* level 1 higher but not above 2; the two outputs have the same fields and
\* every other field is equal.
C21_WetTouchesOnlyItsFields ==
    WetAfterDry =>
        LET wet == tune[1]
            dry == prev[1].tune
        IN /\ DOMAIN wet = DOMAIN dry
           /\ \A f \in DOMAIN dry \ WeatherFields : wet[f] = dry[f]
           /\ wet.tire_pressure_front = dry.tire_pressure_front - 2
           /\ wet.tire_pressure_rear = dry.tire_pressure_rear - 2
           /\ wet.differential_accel = Max(10, dry.differential_accel - 10)
           /\ wet.camber_front = dry.camber_front - 30
           /\ wet.camber_rear = dry.camber_rear - 30
           /\ wet.toe_rear = dry.toe_rear + 5
           /\ wet.downforce_front = dry.downforce_front + 20
           /\ wet.downforce_rear = dry.downforce_rear + 30
           /\ wet.traction_control_level = Min(2, dry.traction_control_level + 1)

\* a Wet result after the Dry one of an all-wheel-drive car whose traction
\* control is already at 2: the level stays, the AWD splits are present
C21_Witness ==
    /\ WetAfterDry
    /\ "center_diff" \in DOMAIN tune[1]
    /\ prev[1].tune.traction_control_level = 2
    /\ tune[1].traction_control_level = 2
    /\ tune[1].toe_rear = prev[1].tune.toe_rear + 5

-----------------------------------------------------------------------------
(* Final-drive specification: a result is kept, a 'Final Drive' text is    *)
(* typed into the Tuning section and the tune is calculated again.         *)

sEmpty == <<>>

\* the texts typed into Tuning 'Final Drive': 4.10, " 2.5 ", -1, 9.75 and
\* three that are no number
FinalDriveTexts == {RatioText(410), sPadded, sNegative, RatioText(975), sWord, sBlank, sEmpty}

\* the number a 'Final Drive' text stands for, in hundredths
FinalDriveNumber(t) ==
    IF t = RatioText(410) THEN Some(410)
    ELSE IF t = sPadded THEN Some(250)
    ELSE IF t = sNegative THEN Some(-100)
    ELSE IF t = RatioText(975) THEN Some(975)
    ELSE None

FinalCars == {porsche911GT3, Car("AWD", 900, 3000, 860, Some(70), None)}

InitFinal ==
    /\ car \in FinalCars
    /\ upgrades = NoUpgrades
    /\ tuneType \in Styles
    /\ weather \in Weathers
    /\ NoCallYet

NextFinal == CalculateTune \/ KeepResult \/ \E t \in FinalDriveTexts : handlePartChange("Tuning", "Final Drive", t)

SpecFinal == InitFinal /\ [][NextFinal]_vars

\* the kept result is the one of the current call's arguments without the
\* 'Final Drive' entry
FinalDriveAdded ==
    /\ prev # None /\ tune # None
    /\ HasUpgrade(args[1].upgrades, "Tuning", "Final Drive")
    /\ prev[1].args = [args[1] EXCEPT !.upgrades = Without(args[1].upgrades, "Tuning", "Final Drive")]

\* C8: a Tuning 'Final Drive' that is a finite number becomes final_drive
\* as it is, without a range check; one that is blank or not a number
\* leaves the computed final_drive; in both cases every other output field
\* is the same as without the entry.
C8_ManualFinalDrive ==
    FinalDriveAdded =>
        LET n == FinalDriveNumber(args[1].upgrades[<<"Tuning", "Final Drive">>])
        IN IF n # None
           THEN tune[1] = [prev[1].tune EXCEPT !.final_drive = n[1]]
           ELSE tune[1] = prev[1].tune

\* a final drive of -1 was taken as typed
C8_Witness ==
    /\ FinalDriveAdded
    /\ args[1].upgrades[<<"Tuning", "Final Drive">>] = sNegative
    /\ tune[1].final_drive = -100
    /\ prev[1].tune.final_drive > 0

-----------------------------------------------------------------------------
(* Session specification: a caller such as the calculator page once a car  *)
(* is picked, with its car picker, style and weather selects, parts form   *)
(* and Calculate button.                                                   *)

SessionCars == {porsche911GT3, Car("RWD", 900, 3000, 860, None, None)}

SessionStyles == {"Race", "Drag"}

Init ==
    /\ car \in SessionCars
    /\ upgrades \in {NoUpgrades, Sel("Conversion", "Drivetrain Swap", sAWD)}
    /\ tuneType \in SessionStyles
    /\ weather = "Dry"
    /\ NoCallYet

Next ==
    \/ CalculateTune
    \/ KeepResult
    \/ \E w \in Weathers : SetWeather(w)
    \/ \E st \in SessionStyles : SetTuneType(st)
    \/ \E c \in SessionCars : SelectCar(c)
    \/ handlePartChange("Platform", "Weight Reduction", sRace)

Spec == Init /\ [][Next]_vars

-----------------------------------------------------------------------------
(* Effective-car specification: a drivetrain swap and a weight reduction   *)
(* in the selection against a car that has them built in.                  *)

\* the option text of a drivetrain
SwapName(d) == IF d = "RWD" THEN sRWD ELSE IF d = "FWD" THEN sFWD ELSE IF d = "AWD" THEN sAWD ELSE s4WD

WeightTiers == {sStreet, sSport, sRace}

\* the weight a tier leaves: x 0.95 / 0.90 / 0.85, to the nearest pound
ReducedWeight(w, t) ==
    LET pct == IF t = sStreet THEN 95 ELSE IF t = sSport THEN 90 ELSE 85
    IN (2 * w * pct + 100) \div 200

\* the rest of the selection: nothing, or a transmission, a rear compound
\* and a differential
OtherSelections ==
    {NoUpgrades,
     Sel("Drivetrain", "Transmission", RaceSpeed(8)) @@ Sel("Tires", "Rear Compound", sRally)
        @@ Sel("Drivetrain", "Differential", sSport)}

EffectiveCars == {Car("RWD", 520, 3143, 898, None, None), Car("AWD", 900, 3000, 860, Some(70), Some(48))}

InitEffective ==
    /\ car \in EffectiveCars
    /\ upgrades \in {Sel("Conversion", "Drivetrain Swap", SwapName(d)) @@ Sel("Platform", "Weight Reduction", t) @@ o :
                        d \in Drivetrains, t \in WeightTiers, o \in OtherSelections}
    /\ tuneType \in Styles
    /\ weather \in Weathers
    /\ NoCallYet

NextEffective == CalculateTune

SpecEffective == InitEffective /\ [][NextEffective]_vars

\* C11: a call with Conversion 'Drivetrain Swap' = D and Platform 'Weight
\* Reduction' = T returns, in every field, the output of the call for the
\* car with drivetrain D and weight round(weight x 0.95/0.90/0.85) and the
\* selection without those two entries.
C11_EffectiveCarEquivalence ==
    tune # None =>
        \A d \in Drivetrains, t \in WeightTiers :
            LET a == args[1]
            IN (/\ HasUpgrade(a.upgrades, "Conversion", "Drivetrain Swap")
                /\ HasUpgrade(a.upgrades, "Platform", "Weight Reduction")
                /\ a.upgrades[<<"Conversion", "Drivetrain Swap">>] = SwapName(d)
                /\ a.upgrades[<<"Platform", "Weight Reduction">>] = t)
               => tune[1] = calculateTune([a.car EXCEPT !.drivetrain = d, !.weight_lbs = ReducedWeight(@, t)],
                                          Without(Without(a.upgrades, "Conversion", "Drivetrain Swap"), "Platform", "Weight Reduction"),
                                          a.tuneType, a.weather)

\* the RWD car swapped to AWD and reduced by the Sport tier from 3143 to
\* 2829 lb came out with the AWD fields and an eight-speed gearbox
C11_Witness ==
    /\ tune # None
    /\ args[1].car.drivetrain = "RWD"
    /\ args[1].upgrades[<<"Conversion", "Drivetrain Swap">>] = sAWD
    /\ args[1].upgrades[<<"Platform", "Weight Reduction">>] = sSport
    /\ tune[1].center_diff # None
    /\ Len(tune[1].gear_ratios) = 8
    /\ tune[1] = calculateTune(Car("AWD", 520, 2829, 898, None, None),
                               Without(Without(args[1].upgrades, "Conversion", "Drivetrain Swap"), "Platform", "Weight Reduction"),
                               args[1].tuneType, args[1].weather)

-----------------------------------------------------------------------------
(* Brake specification: one style and weather, the result of one car is    *)
(* kept and another car is picked and tuned.                               *)

\* weight and weight_distribution_front of the cars: none, 0.40 and 0.65
BrakeBodies == {<<3000, None>>, <<3000, Some(40)>>, <<3400, Some(65)>>}

BrakeCars == {Car(d, 400, b[1], 800, None, b[2]) : d \in Drivetrains, b \in BrakeBodies}

InitBrakes ==
    /\ car \in BrakeCars
    /\ upgrades = NoUpgrades
    /\ tuneType \in Styles
    /\ weather \in Weathers
    /\ NoCallYet

NextBrakes == CalculateTune \/ KeepResult \/ \E c \in BrakeCars : SelectCar(c)

SpecBrakes == InitBrakes /\ [][NextBrakes]_vars

\* a kept result and the current one, for the same style, weather and
\* selection
SameCallOtherCar ==
    /\ prev # None /\ tune # None
    /\ prev[1].args.tuneType = args[1].tuneType
    /\ prev[1].args.weather = args[1].weather
    /\ prev[1].args.upgrades = args[1].upgrades

\* C12: for every style and weather and no drivetrain swap, an FWD car's
\* brake_bias is strictly greater than an RWD car's and an AWD car's differs
\* from the RWD car's, whatever the weights and weight distributions.
C12_BrakeBiasByDrivetrain ==
    (SameCallOtherCar /\ args[1].car.drivetrain = "RWD") =>
        /\ prev[1].args.car.drivetrain = "FWD" => prev[1].tune.brake_bias > tune[1].brake_bias
        /\ prev[1].args.car.drivetrain = "AWD" => prev[1].tune.brake_bias # tune[1].brake_bias

\* a light rear-heavy FWD car was tuned first, a heavy front-heavy RWD car
\* after it
C12_Witness ==
    /\ SameCallOtherCar
    /\ prev[1].args.car.drivetrain = "FWD" /\ prev[1].args.car.weight_distribution_front = Some(40)
    /\ args[1].car.drivetrain = "RWD" /\ args[1].car.weight_distribution_front = Some(65)
    /\ args[1].car.weight_lbs > prev[1].args.car.weight_lbs
    /\ prev[1].tune.brake_bias = tune[1].brake_bias + 5

\* the bias table of the styles
StyleBias(style) ==
    IF style = "Race" THEN 55 ELSE IF style = "Drift" THEN 60 ELSE IF style = "Drag" THEN 70
    ELSE IF style = "Offroad" THEN 50 ELSE IF style = "Rally" THEN 51 ELSE IF style = "Cruise" THEN 53 ELSE 52

DrivetrainBias(d) == IF d = "FWD" THEN 3 ELSE IF d = "RWD" THEN -2 ELSE 0

\* the two cars differ in weight_distribution_front and in nothing else
DifferOnlyInDistribution(c1, c2) ==
    /\ c1.weight_distribution_front # c2.weight_distribution_front
    /\ [c1 EXCEPT !.weight_distribution_front = None] = [c2 EXCEPT !.weight_distribution_front = None]

-----------------------------------------------------------------------------
(* Frame specification: one entry added to a selection, either one the     *)
(* engine does not read or 'Stock' for a part it reads.                    *)

sTwinTurbo == <<"T", "w", "i", "n", " ", "T", "u", "r", "b", "o">>
sRimStyle == <<"F", "o", "r", "g", "e", "d">>

\* the sections and parts calculateTune reads
ReadParts ==
    {<<"Conversion", "Drivetrain Swap">>, <<"Conversion", "Aspiration">>, <<"Engine", "Aspiration">>,
     <<"Platform", "Weight Reduction">>, <<"Platform", "Springs">>, <<"Platform", "Front ARB">>,
     <<"Platform", "Rear ARB">>, <<"Platform", "Brakes">>,
     <<"Aero", "Rear Wing">>, <<"Aero", "Front Bumper">>, <<"Aero", "Rear Bumper">>,
     <<"Tires", "Front Compound">>, <<"Tires", "Rear Compound">>,
     <<"Drivetrain", "Differential">>, <<"Drivetrain", "Transmission">>,
     <<"Tuning", "Final Drive">>}
    \cup {<<"Tuning", GearKey(i)>> : i \in 1..10}

\* entries of sections and parts the engine never looks at
UnreadEntries ==
    {Sel("Rims", "Front Rim Style", sRimStyle), Sel("Platform", "Chassis Reinforcement", sRace),
     Sel("Tuning", "Gear 0 Ratio", RatioText(410)), Sel("Engine", "Exhaust", sStock)}

\* a selection with every part the engine reads set to an option that acts
FullSelection ==
    Sel("Conversion", "Drivetrain Swap", sAWD) @@ Sel("Conversion", "Aspiration", sTwinTurbo)
    @@ Sel("Engine", "Aspiration", sAntiLag) @@ Sel("Platform", "Weight Reduction", sRace)
    @@ Sel("Platform", "Springs", sRally) @@ Sel("Platform", "Front ARB", sSport)
    @@ Sel("Platform", "Rear ARB", sStreet) @@ Sel("Platform", "Brakes", sRace)
    @@ Sel("Aero", "Rear Wing", sRace) @@ Sel("Aero", "Front Bumper", sSport)
    @@ Sel("Aero", "Rear Bumper", sRace) @@ Sel("Tires", "Front Compound", sRace)
    @@ Sel("Tires", "Rear Compound", sDrift) @@ Sel("Drivetrain", "Differential", sDrift)
    @@ Sel("Drivetrain", "Transmission", RaceSpeed(7)) @@ Sel("Tuning", "Final Drive", RatioText(410))
    @@ GearOverrides(7, 0, None)

FrameBases == {NoUpgrades, FullSelection}

FrameCars == {Car("RWD", 520, 3143, 898, None, None), Car("AWD", 900, 3000, 860, Some(70), Some(48))}

InitFrame ==
    /\ car \in FrameCars
    /\ upgrades \in {e @@ b : b \in FrameBases,
                              e \in UnreadEntries \cup {Sel(k[1], k[2], sStock) : k \in ReadParts}}
    /\ tuneType \in Styles
    /\ weather \in Weathers
    /\ NoCallYet

NextFrame == CalculateTune

SpecFrame == InitFrame /\ [][NextFrame]_vars

\* an entry of the selection that the engine does not read or that sets a
\* part to 'Stock'
InertEntry(u, k) == k \in DOMAIN u /\ (k \notin ReadParts \/ u[k] = sStock)

\* C13: an entry under a section or part name the engine does not read, and
\* 'Stock' for a part the engine reads, give exactly the output of the
\* selection without that entry.
C13_UnreadAndStockHaveNoEffect ==
    tune # None =>
        \A k \in DOMAIN args[1].upgrades :
            InertEntry(args[1].upgrades, k) =>
                tune[1] = calculateTune(args[1].car, Without(args[1].upgrades, k[1], k[2]), args[1].tuneType, args[1].weather)

\* 'Stock' in place of the Drift rear compound of the full selection: the
\* label is the front compound alone, as without a rear entry
C13_Witness ==
    /\ tune # None
    /\ HasUpgrade(args[1].upgrades, "Tires", "Front Compound")
    /\ HasUpgrade(args[1].upgrades, "Tires", "Rear Compound")
    /\ args[1].upgrades[<<"Tires", "Rear Compound">>] = sStock
    /\ args[1].upgrades[<<"Tires", "Front Compound">>] = sRace
    /\ tune[1].tire_compound = sRace
    /\ tune[1] = calculateTune(args[1].car, Without(args[1].upgrades, "Tires", "Rear Compound"), args[1].tuneType, args[1].weather)

-----------------------------------------------------------------------------
(* Springs and wing specification: a result is kept, a Springs or Rear     *)
(* Wing option is chosen in the parts form and the tune calculated again.  *)

\* a car with nothing chosen and a car with other platform and aero parts
SpringSetups ==
    {<<Car("RWD", 520, 3143, 898, None, None), NoUpgrades>>,
     <<Car("AWD", 900, 3000, 860, Some(70), Some(48)),
       Sel("Platform", "Rear ARB", sSport) @@ Sel("Aero", "Rear Bumper", sSport) @@ Sel("Platform", "Weight Reduction", sSport)>>}

InitSprings ==
    /\ \E s \in SpringSetups : car = s[1] /\ upgrades = s[2]
    /\ tuneType \in Styles
    /\ weather \in Weathers
    /\ NoCallYet

NextSprings ==
    \/ CalculateTune
    \/ KeepResult
    \/ \E t \in {sRace, sRally} : handlePartChange("Platform", "Springs", t)
    \/ handlePartChange("Aero", "Rear Wing", sRace)

SpecSprings == InitSprings /\ [][NextSprings]_vars

\* the kept result is the one of the current call's arguments without the
\* entry of the part, which now holds the option
OptionAdded(section, part, option) ==
    /\ prev # None /\ tune # None
    /\ HasUpgrade(args[1].upgrades, section, part)
    /\ args[1].upgrades[<<section, part>>] = option
    /\ prev[1].args = [args[1] EXCEPT !.upgrades = Without(args[1].upgrades, section, part)]

\* C14: against the same call without the upgrade, Platform Springs 'Race'
\* adds exactly 50 to both springs, Springs 'Rally' takes 50 off both
\* springs and adds 3 to both ride heights, Aero Rear Wing 'Race' adds
\* exactly 50 to downforce_rear, and no other output field changes.
C14_SpringsAndWing ==
    /\ OptionAdded("Platform", "Springs", sRace) =>
          tune[1] = [prev[1].tune EXCEPT !.spring_front = @ + 50, !.spring_rear = @ + 50]
    /\ OptionAdded("Platform", "Springs", sRally) =>
          tune[1] = [prev[1].tune EXCEPT !.spring_front = @ - 50, !.spring_rear = @ - 50,
                                         !.ride_height_front = @ + 3, !.ride_height_rear = @ + 3]
    /\ OptionAdded("Aero", "Rear Wing", sRace) =>
          tune[1] = [prev[1].tune EXCEPT !.downforce_rear = @ + 50]

\* Rally springs were added to a selection that already had the Race wing
C14_Witness ==
    /\ OptionAdded("Platform", "Springs", sRally)
    /\ HasUpgrade(args[1].upgrades, "Aero", "Rear Wing")
    /\ tune[1].spring_rear = prev[1].tune.spring_rear - 50
    /\ tune[1].ride_height_rear = prev[1].tune.ride_height_rear + 3
    /\ tune[1].damping_rebound_rear = prev[1].tune.damping_rebound_rear

DampingFields ==
    {"damping_rebound_front", "damping_rebound_rear", "damping_compression_front", "damping_compression_rear"}

\* C30: damping is computed from the spring rates before the upgrade
\* deltas: against the same call without the upgrade, Platform Springs
\* 'Race' or 'Rally' changes spring_front and spring_rear (and, for Rally,
\* both ride heights) and leaves the four damping values exactly as they
\* were; and on each axle the compression is strictly lower than the
\* rebound.
C30_DampingBeforeSpringDeltas ==
    /\ \A option \in {sRace, sRally} :
          OptionAdded("Platform", "Springs", option) =>
              /\ tune[1].spring_front # prev[1].tune.spring_front
              /\ tune[1].spring_rear # prev[1].tune.spring_rear
              /\ option = sRally =>
                    /\ tune[1].ride_height_front # prev[1].tune.ride_height_front
                    /\ tune[1].ride_height_rear # prev[1].tune.ride_height_rear
              /\ \A f \in DampingFields : tune[1][f] = prev[1].tune[f]
    /\ tune # None =>
          /\ tune[1].damping_compression_front < tune[1].damping_rebound_front
          /\ tune[1].damping_compression_rear < tune[1].damping_rebound_rear

\* Race springs added to a Race tune: the springs are 50 higher, the front
\* rebound is the one of the tune without them
C30_Witness ==
    /\ OptionAdded("Platform", "Springs", sRace)
    /\ args[1].tuneType = "Race"
    /\ tune[1].spring_front = prev[1].tune.spring_front + 50
    /\ tune[1].damping_rebound_front = prev[1].tune.damping_rebound_front
    /\ tune[1].damping_compression_front < tune[1].damping_rebound_front

-----------------------------------------------------------------------------
(* Power specification: cars around the power-to-weight thresholds, with   *)
(* swaps and weight reductions; a result is kept and the style changed.    *)

\* power / weight: 0.19, 0.22 (0.26 after the Race weight tier), and
\* exactly 0.25
PowerCars ==
    {Car("RWD", 600, 3143, 800, None, None), Car("RWD", 700, 3143, 800, None, None),
     Car("AWD", 700, 3143, 800, None, None), Car("RWD", 750, 3000, 800, None, None)}

PowerSelections ==
    {NoUpgrades, Sel("Platform", "Weight Reduction", sRace), Sel("Conversion", "Drivetrain Swap", sAWD),
     Sel("Conversion", "Drivetrain Swap", sRWD) @@ Sel("Platform", "Weight Reduction", sRace),
     Sel("Platform", "Weight Reduction", sStock)}

InitPower ==
    /\ car \in PowerCars
    /\ upgrades \in PowerSelections
    /\ tuneType \in Styles
    /\ weather \in Weathers
    /\ NoCallYet

NextPower == CalculateTune \/ KeepResult \/ \E s \in Styles : SetTuneType(s)

SpecPower == InitPower /\ [][NextPower]_vars

\* the weight the tune is computed for: the car's, reduced by the tier of a
\* Platform 'Weight Reduction'
ReducedWeightOf(a) ==
    LET u == a.upgrades
        t == IF HasUpgrade(u, "Platform", "Weight Reduction") THEN u[<<"Platform", "Weight Reduction">>] ELSE <<>>
    IN IF t \in WeightTiers THEN ReducedWeight(a.car.weight_lbs, t) ELSE a.car.weight_lbs

\* power_hp / weight_lbs of the effective car is above num / den
PowerToWeightAbove(a, num, den) == a.car.power_hp * den > num * ReducedWeightOf(a)

AssistsOffStyles == {"Race", "Drift", "Drag"}

FinalDriveTable(a) ==
    LET style == a.tuneType
    IN IF style = "Race" THEN (IF PowerToWeightAbove(a, 1, 4) THEN 370 ELSE 330)
       ELSE IF style = "Drag" THEN (IF PowerToWeightAbove(a, 1, 5) THEN 480 ELSE 450)
       ELSE IF style \in {"Street", "Road"} THEN (IF PowerToWeightAbove(a, 1, 5) THEN 300 ELSE 320)
       ELSE IF style = "Drift" THEN 420
       ELSE IF style \in {"Rally", "Offroad"} THEN 380
       ELSE 300

\* the kept result is the Race result of the car and selection whose Drag
\* result is the current one
DragAfterRace ==
    /\ prev # None /\ tune # None
    /\ args[1].tuneType = "Drag"
    /\ prev[1].args = [args[1] EXCEPT !.tuneType = "Race"]

\* C16: without a manual Final Drive, final_drive is the table value of the
\* style and of the effective car's power-to-weight against the style's
\* threshold, lies strictly between 2.0 and 6.0, and for the same car the
\* Drag final_drive is strictly greater than the Race final_drive.
C16_FinalDriveByStyleAndPower ==
    /\ (tune # None /\ ~HasUpgrade(args[1].upgrades, "Tuning", "Final Drive")) =>
          /\ tune[1].final_drive = FinalDriveTable(args[1])
          /\ tune[1].final_drive > 200 /\ tune[1].final_drive < 600
    /\ DragAfterRace => tune[1].final_drive > prev[1].tune.final_drive

\* at 0.22 the car is above the Drag threshold and below the Race one
C16_Witness ==
    /\ DragAfterRace
    /\ args[1].car.power_hp = 700 /\ ReducedWeightOf(args[1]) = 3143
    /\ tune[1].final_drive = 480
    /\ prev[1].tune.final_drive = 330

\* traction control level of the style's table
TractionTable(style) ==
    IF style \in AssistsOffStyles THEN 0
    ELSE IF style \in {"Offroad", "Cruise"} THEN 2
    ELSE 1

-----------------------------------------------------------------------------
(* formatTuneForFH5: the text sheet, as the sequence of its lines. A line  *)
(* is its label and the value printed after it; the digits of a printed   *)
(* number are not spelled out. The car's year, manufacturer and model are  *)
(* not part of the car record here and leave the CAR line without a value. *)

Line(label, value) == [label |-> label, value |-> value]

BlankLine == Line("", None)

\* a section heading between two rules
Heading(title) == <<Line("----", None), Line(title, None), Line("----", None)>>

\* the truth value JavaScript gives an optional number: undefined and 0
\* are false
Truthy(v) == v # None /\ v[1] # 0

\* 1st, 2nd, 3rd, 4th, ..., 11th, 12th, 13th, ...
ord(n) ==
    IF n % 100 >= 11 /\ n % 100 <= 13 THEN ToString(n) \o "th"
    ELSE IF n % 10 = 1 THEN ToString(n) \o "st"
    ELSE IF n % 10 = 2 THEN ToString(n) \o "nd"
    ELSE IF n % 10 = 3 THEN ToString(n) \o "rd"
    ELSE ToString(n) \o "th"

gearLines(t) == [idx \in 1..Len(t.gear_ratios) |-> Line(ord(idx) \o " Gear:", Some(t.gear_ratios[idx]))]

\* mutant: the three AWD lines printed by the drivetrain of the car passed in
formatTuneForFH5_byCarDrivetrain(t, c, style) ==
    LET awd == c.drivetrain \in {"AWD", "4WD"}
    IN <<Line("====", None), Line("FORZA HORIZON 5 TUNE SHEET", None), Line("====", None), BlankLine,
         Line("CAR:", None), Line("PI:", Some(<<c.pi, c.drivetrain, c.power_hp, c.weight_lbs>>)),
         Line("TUNE TYPE:", Some(style)), BlankLine>>
       \o Heading("GEARING")
       \o <<Line("Final Drive:", Some(t.final_drive))>> \o gearLines(t) \o <<BlankLine>>
       \o Heading("DIFFERENTIAL")
       \o <<Line("Acceleration:", Some(t.differential_accel)),
            Line("Deceleration:", Some(t.differential_decel)),
            IF awd THEN Line("Center Balance:", t.center_diff) ELSE BlankLine,
            IF awd THEN Line("Front Diff:", t.front_diff) ELSE BlankLine,
            IF awd THEN Line("Rear Diff:", t.rear_diff) ELSE BlankLine,
            BlankLine>>
       \o Heading("BRAKES")
       \o <<Line("Balance:", Some(t.brake_bias)), Line("Pressure:", Some(t.brake_pressure)), BlankLine>>
       \o Heading("SPRINGS & ANTI-ROLL BARS")
       \o <<Line("Front Springs:", Some(t.spring_front)), Line("Rear Springs:", Some(t.spring_rear)),
            Line("Front ARB:", Some(t.arb_front)), Line("Rear ARB:", Some(t.arb_rear)), BlankLine>>
       \o Heading("RIDE HEIGHT")
       \o <<Line("Front:", Some(t.ride_height_front)), Line("Rear:", Some(t.ride_height_rear)), BlankLine>>
       \o Heading("ALIGNMENT")
       \o <<Line("Front Camber:", Some(t.camber_front)), Line("Rear Camber:", Some(t.camber_rear)),
            Line("Front Toe:", Some(t.toe_front)), Line("Rear Toe:", Some(t.toe_rear)),
            Line("Caster:", Some(t.caster)), BlankLine>>
       \o Heading("DAMPING")
       \o <<Line("Front Rebound:", Some(t.damping_rebound_front)), Line("Rear Rebound:", Some(t.damping_rebound_rear)),
            Line("Front Bump:", Some(t.damping_compression_front)), Line("Rear Bump:", Some(t.damping_compression_rear)),
            BlankLine>>
       \o Heading("TIRES")
       \o <<Line("Compound:", Some(t.tire_compound)), Line("Front Pressure:", Some(t.tire_pressure_front)),
            Line("Rear Pressure:", Some(t.tire_pressure_rear)), BlankLine>>
       \o Heading("AERO")
       \o <<Line("Front Downforce:", Some(t.downforce_front)), Line("Rear Downforce:", Some(t.downforce_rear)), BlankLine>>
       \o Heading("POWER & ASSISTS")
       \o <<Line("Turbo Mapping:", Some(t.turbo_map)), Line("Traction Control:", Some(t.traction_control_level)),
            Line("ABS:", Some(t.abs_level)), Line("Stability:", Some(t.stability_control))>>

\* the sheet after its final trim(): from the top rule to the Stability line
formatTuneForFH5(t, c, style) ==
    <<Line("====", None), Line("FORZA HORIZON 5 TUNE SHEET", None), Line("====", None), BlankLine,
      Line("CAR:", None), Line("PI:", Some(<<c.pi, c.drivetrain, c.power_hp, c.weight_lbs>>)),
      Line("TUNE TYPE:", Some(style)), BlankLine>>
    \o Heading("GEARING")
    \o <<Line("Final Drive:", Some(t.final_drive))>> \o gearLines(t) \o <<BlankLine>>
    \o Heading("DIFFERENTIAL")
    \o <<Line("Acceleration:", Some(t.differential_accel)),
         Line("Deceleration:", Some(t.differential_decel)),
         IF Truthy(t.center_diff) THEN Line("Center Balance:", t.center_diff) ELSE BlankLine,
         IF Truthy(t.front_diff) THEN Line("Front Diff:", t.front_diff) ELSE BlankLine,
         IF Truthy(t.rear_diff) THEN Line("Rear Diff:", t.rear_diff) ELSE BlankLine,
         BlankLine>>
    \o Heading("BRAKES")
    \o <<Line("Balance:", Some(t.brake_bias)), Line("Pressure:", Some(t.brake_pressure)), BlankLine>>
    \o Heading("SPRINGS & ANTI-ROLL BARS")
    \o <<Line("Front Springs:", Some(t.spring_front)), Line("Rear Springs:", Some(t.spring_rear)),
         Line("Front ARB:", Some(t.arb_front)), Line("Rear ARB:", Some(t.arb_rear)), BlankLine>>
    \o Heading("RIDE HEIGHT")
    \o <<Line("Front:", Some(t.ride_height_front)), Line("Rear:", Some(t.ride_height_rear)), BlankLine>>
    \o Heading("ALIGNMENT")
    \o <<Line("Front Camber:", Some(t.camber_front)), Line("Rear Camber:", Some(t.camber_rear)),
         Line("Front Toe:", Some(t.toe_front)), Line("Rear Toe:", Some(t.toe_rear)),
         Line("Caster:", Some(t.caster)), BlankLine>>
    \o Heading("DAMPING")
    \o <<Line("Front Rebound:", Some(t.damping_rebound_front)), Line("Rear Rebound:", Some(t.damping_rebound_rear)),
         Line("Front Bump:", Some(t.damping_compression_front)), Line("Rear Bump:", Some(t.damping_compression_rear)),
         BlankLine>>
    \o Heading("TIRES")
    \o <<Line("Compound:", Some(t.tire_compound)), Line("Front Pressure:", Some(t.tire_pressure_front)),
         Line("Rear Pressure:", Some(t.tire_pressure_rear)), BlankLine>>
    \o Heading("AERO")
    \o <<Line("Front Downforce:", Some(t.downforce_front)), Line("Rear Downforce:", Some(t.downforce_rear)), BlankLine>>
    \o Heading("POWER & ASSISTS")
    \o <<Line("Turbo Mapping:", Some(t.turbo_map)), Line("Traction Control:", Some(t.traction_control_level)),
         Line("ABS:", Some(t.abs_level)), Line("Stability:", Some(t.stability_control))>>

\* tuneOutput.text of handleCalculate: the sheet of the last result, headed
\* by the car as the caller holds it
tuneOutputText == IF tune = None THEN None ELSE Some(formatTuneForFH5(tune[1], args[1].car, args[1].tuneType))

HasLine(sheet, label) == \E i \in DOMAIN sheet : sheet[i].label = label

\* C17: the sheet has the lines 'Center Balance:', 'Front Diff:' and 'Rear
\* Diff:' exactly when the tune has center_diff, front_diff and rear_diff
\* defined, which is when it was computed for an AWD or 4WD drivetrain; a
\* tune computed for RWD or FWD has none of the three.
C17_AwdLinesOnSheet ==
    tune # None =>
        LET sheet == tuneOutputText[1]
            awd == SwappedDrivetrain(args[1]) \in {"AWD", "4WD"}
        IN /\ AwdFieldsDefined(tune[1]) <=> awd
           /\ HasLine(sheet, "Center Balance:") <=> awd
           /\ HasLine(sheet, "Front Diff:") <=> awd
           /\ HasLine(sheet, "Rear Diff:") <=> awd

\* the sheet of an RWD car swapped to AWD, Drift in the wet: headed RWD,
\* with the three lines, Front Diff at 12
C17_Witness ==
    /\ tune # None
    /\ args[1].car.drivetrain = "RWD"
    /\ SwappedDrivetrain(args[1]) = "AWD"
    /\ args[1].tuneType = "Drift" /\ args[1].weather = "Wet"
    /\ tune[1].front_diff = Some(1200)
    /\ HasLine(tuneOutputText[1], "Center Balance:")
    /\ HasLine(tuneOutputText[1], "Front Diff:")
    /\ HasLine(tuneOutputText[1], "Rear Diff:")

-----------------------------------------------------------------------------
(* Differential specification: every style and weather with every tier of  *)
(* the Drivetrain 'Differential' upgrade.                                  *)

sStreetTier == <<" ", "S", "t", "r", "e", "e", "t">>

DifferentialTiers == {sStock, sSport, sRace, sRally, sOffRoad, sDrift, sStreetTier}

InitDifferential ==
    /\ car \in {Car(d, 520, 3143, 898, None, None) : d \in {"RWD", "AWD", "4WD"}}
    /\ upgrades \in {NoUpgrades} \cup {Sel("Drivetrain", "Differential", t) : t \in DifferentialTiers}
    /\ tuneType \in Styles
    /\ weather \in Weathers
    /\ NoCallYet

NextDifferential == CalculateTune

SpecDifferential == InitDifferential /\ [][NextDifferential]_vars

\* the accel / decel table of the styles
StyleAccel(style) ==
    IF style = "Race" THEN 75 ELSE IF style = "Drift" THEN 15 ELSE IF style = "Drag" THEN 100
    ELSE IF style \in {"Offroad", "Rally"} THEN 60 ELSE IF style = "Cruise" THEN 45 ELSE 50

StyleDecel(style) ==
    IF style = "Race" THEN 15 ELSE IF style = "Drift" THEN 5 ELSE IF style = "Drag" THEN 10
    ELSE IF style \in {"Offroad", "Rally", "Cruise"} THEN 25 ELSE 20

\* C19 as claimed: differential_preload is round((differential_accel +
\* differential_decel) / 2.5) and the AWD front_diff and rear_diff are 0.8
\* and 0.9 of differential_accel, with accel and decel taken from that same
\* output, for every style, weather and Differential upgrade.
C19_Original ==
    tune # None =>
        LET t == tune[1]
        IN /\ 5 * t.differential_preload - 2 * (t.differential_accel + t.differential_decel) \in -2..2
           /\ t.front_diff # None => t.front_diff[1] = 80 * t.differential_accel
           /\ t.rear_diff # None => t.rear_diff[1] = 90 * t.differential_accel

\* C19, amended: differential_preload is round((A + D) / 2.5) and the AWD
\* front_diff and rear_diff are 0.8 A and 0.9 A, where A and D are the
\* style's table accel and decel; these are the output's own
\* differential_accel and differential_decel when the weather is Dry and no
\* non-Stock Differential upgrade is selected.
C19_DerivedFromStyleTable ==
    tune # None =>
        LET t == tune[1]
            A == StyleAccel(args[1].tuneType)
            D == StyleDecel(args[1].tuneType)
            plain == \/ ~HasUpgrade(args[1].upgrades, "Drivetrain", "Differential")
                     \/ args[1].upgrades[<<"Drivetrain", "Differential">>] = sStock
        IN /\ 5 * t.differential_preload - 2 * (A + D) \in -2..2
           /\ t.front_diff # None => t.front_diff[1] = 80 * A
           /\ t.rear_diff # None => t.rear_diff[1] = 90 * A
           /\ (plain /\ args[1].weather = "Dry") => (t.differential_accel = A /\ t.differential_decel = D)

\* Race with the Drift differential in the wet on an AWD car: accel went
\* from 75 to 87 to 77, preload stays 36 and front_diff 60
C19_Witness ==
    /\ tune # None
    /\ args[1].tuneType = "Race" /\ args[1].weather = "Wet"
    /\ HasUpgrade(args[1].upgrades, "Drivetrain", "Differential")
    /\ tune[1].differential_accel = 77
    /\ tune[1].differential_preload = 36
    /\ tune[1].front_diff = Some(6000)

\* the accel / decel a tier of the Differential upgrade adds
TierAccel(t) == IF t = sSport THEN 5 ELSE IF t = sRace THEN 10 ELSE IF t \in {sRally, sOffRoad} THEN 6 ELSE IF t = sDrift THEN 12 ELSE 0
TierDecel(t) == IF t = sSport THEN 2 ELSE IF t = sRace THEN 4 ELSE IF t \in {sRally, sOffRoad} THEN 3 ELSE IF t = sDrift THEN 1 ELSE 0

\* C20: a Differential upgrade adds its tier's delta to the style's accel
\* and decel (Sport +5/+2, Race +10/+4, Rally or Off-Road +6/+3, Drift
\* +12/+1, any other name +0/+0), each clamped to [0,100]; in every output
\* differential_accel is within [10,100] and differential_decel within
\* [0,100].
C20_DifferentialUpgradeDeltas ==
    tune # None =>
        LET t == tune[1]
            tier == IF HasUpgrade(args[1].upgrades, "Drivetrain", "Differential")
                    THEN args[1].upgrades[<<"Drivetrain", "Differential">>] ELSE sStock
            a == Min(100, Max(0, StyleAccel(args[1].tuneType) + TierAccel(tier)))
            d == Min(100, Max(0, StyleDecel(args[1].tuneType) + TierDecel(tier)))
        IN /\ t.differential_decel = d
           /\ t.differential_accel = (IF args[1].weather = "Wet" THEN Max(10, a - 10) ELSE a)
           /\ t.differential_accel >= 10 /\ t.differential_accel <= 100
           /\ t.differential_decel >= 0 /\ t.differential_decel <= 100

\* Drag with the Drift differential, Dry: 100 + 12 is held at 100
C20_Witness ==
    /\ tune # None
    /\ args[1].tuneType = "Drag" /\ args[1].weather = "Dry"
    /\ HasUpgrade(args[1].upgrades, "Drivetrain", "Differential")
    /\ args[1].upgrades[<<"Drivetrain", "Differential">>] = sDrift
    /\ tune[1].differential_accel = 100
    /\ tune[1].differential_decel = 11

-----------------------------------------------------------------------------
(* Aspiration specification: one call per behaviour, over the aspiration   *)
(* conversions and the engine aspiration levels.                           *)

sSupercharger == <<"C", "e", "n", "t", "r", "i", "f", "u", "g", "a", "l", " ", "S", "u", "p", "e", "r", "c", "h", "a", "r", "g", "e", "r">>

sNaturally == <<"N", "a", "t", "u", "r", "a", "l", "l", "y", " ", "A", "s", "p", "i", "r", "a", "t", "e", "d">>

AspirationConversions ==
    {NoUpgrades} \cup {Sel("Conversion", "Aspiration", t) : t \in {sStock, sTwinTurbo, sSupercharger, sNaturally}}

AspirationLevels == {NoUpgrades} \cup {Sel("Engine", "Aspiration", t) : t \in {sRace, sAntiLag}}

AspirationSelections == {c @@ l : c \in AspirationConversions, l \in AspirationLevels}

AspirationCars == {Car("RWD", 520, 3143, 800, None, None), Car("AWD", 520, 3143, 800, None, None)}

InitAspiration ==
    /\ car \in AspirationCars
    /\ upgrades \in AspirationSelections
    /\ tuneType \in Styles
    /\ weather \in Weathers
    /\ NoCallYet

NextAspiration == CalculateTune

SpecAspiration == InitAspiration /\ [][NextAspiration]_vars

\* turbo_map of the style's table
TurboTable(style) ==
    IF style = "Race" THEN 90
    ELSE IF style \in {"Drift", "Drag"} THEN 100
    ELSE IF style = "Offroad" THEN 85
    ELSE IF style = "Rally" THEN 88
    ELSE IF style = "Cruise" THEN 75
    ELSE 80

\* the selected Conversion Aspiration is the given option
ConversionIs(a, option) ==
    /\ HasUpgrade(a.upgrades, "Conversion", "Aspiration")
    /\ a.upgrades[<<"Conversion", "Aspiration">>] = option

\* the selected Engine Aspiration is 'Race with Anti-lag'
WithAntiLag(a) ==
    /\ HasUpgrade(a.upgrades, "Engine", "Aspiration")
    /\ a.upgrades[<<"Engine", "Aspiration">>] = sAntiLag

\* C23: with a turbo conversion turbo_map is the larger of the style value
\* and 0.9, or exactly 1.0 with Engine Aspiration 'Race with Anti-lag'; with
\* a supercharger conversion it is the larger of the style value and 0.95;
\* with 'Stock', any other name or no conversion it is the style value; it
\* is never below the style value and never above 1.0.
C23_AspirationRaisesTurboMap ==
    tune # None =>
        LET a == args[1]
            base == TurboTable(a.tuneType)
        IN /\ tune[1].turbo_map =
                 (IF ConversionIs(a, sTwinTurbo)
                  THEN (IF WithAntiLag(a) THEN 100 ELSE Max(base, 90))
                  ELSE IF ConversionIs(a, sSupercharger) THEN Max(base, 95)
                  ELSE base)
           /\ tune[1].turbo_map >= base
           /\ tune[1].turbo_map <= 100

\* a Cruise tune (0.75) with a Twin Turbo conversion and anti-lag: 1.0
C23_Witness ==
    /\ tune # None
    /\ args[1].tuneType = "Cruise"
    /\ ConversionIs(args[1], sTwinTurbo) /\ WithAntiLag(args[1])
    /\ tune[1].turbo_map = 100

-----------------------------------------------------------------------------
(* Compound specification: one call per behaviour, over front and rear     *)
(* tire compound names.                                                    *)

sVintage == <<"V", "i", "n", "t", "a", "g", "e">>

sSlickRace == <<"S", "l", "i", "c", "k", " ", "R", "A", "C", "E">>

CompoundFronts == {NoUpgrades} \cup {Sel("Tires", "Front Compound", t) : t \in {sStock, sRace, sDrift, sVintage}}

CompoundRears ==
    {NoUpgrades} \cup {Sel("Tires", "Rear Compound", t) : t \in {sStock, sRally, sDrift, sOffroadTire, sSlickRace, sOffRoad}}

CompoundCars == {Car("RWD", 520, 3143, 800, None, None), Car("FWD", 306, 3143, 700, None, None)}

InitCompound ==
    /\ car \in CompoundCars
    /\ upgrades \in {f @@ r : f \in CompoundFronts, r \in CompoundRears}
    /\ tuneType \in Styles
    /\ weather \in Weathers
    /\ NoCallYet

NextCompound == CalculateTune

SpecCompound == InitCompound /\ [][NextCompound]_vars

\* the non-Stock option selected for a Tires part, or the empty text
ChosenCompound(a, part) ==
    IF HasUpgrade(a.upgrades, "Tires", part) /\ a.upgrades[<<"Tires", part>>] # sStock
    THEN a.upgrades[<<"Tires", part>>]
    ELSE <<>>

\* front and rear pressure shift by compound name: 'race' first, then
\* 'rally' or 'offroad', then 'drift', in any letter case
CompoundShift(name) ==
    IF name \in {sRace, sSlickRace} THEN <<-1, -1>>
    ELSE IF name \in {sRally, sOffroadTire} THEN <<-2, -2>>
    ELSE IF name = sDrift THEN <<1, -1>>
    ELSE <<0, 0>>

\* C24: with a non-Stock front or rear compound, tire_compound is that
\* option when only one is chosen or both are equal and 'Mixed' when they
\* differ, and the pressures are the style's shifted by the rear selection's
\* name when one is chosen, else by the front selection's, each clamped to
\* [15,40] before the weather step; with both Stock or absent, compound and
\* pressures are those of the call without compound entries.
C24_CompoundLabelAndShift ==
    tune # None =>
        LET a == args[1]
            front == ChosenCompound(a, "Front Compound")
            rear == ChosenCompound(a, "Rear Compound")
            plain == calculateTune(a.car, Without(Without(a.upgrades, "Tires", "Front Compound"), "Tires", "Rear Compound"),
                                   a.tuneType, a.weather)
            wet == IF a.weather = "Wet" THEN 2 ELSE 0
            shift == CompoundShift(IF rear # <<>> THEN rear ELSE front)
        IN IF front = <<>> /\ rear = <<>>
           THEN /\ tune[1].tire_compound = plain.tire_compound
                /\ tune[1].tire_pressure_front = plain.tire_pressure_front
                /\ tune[1].tire_pressure_rear = plain.tire_pressure_rear
           ELSE /\ tune[1].tire_compound =
                      (IF front = <<>> THEN rear
                       ELSE IF rear = <<>> \/ rear = front THEN front
                       ELSE sMixed)
                /\ tune[1].tire_pressure_front = clamp(plain.tire_pressure_front + wet + shift[1], 15, 40) - wet
                /\ tune[1].tire_pressure_rear = clamp(plain.tire_pressure_rear + wet + shift[2], 15, 40) - wet

\* Race in front and Drift in the rear on a Road tune of the RWD car: the
\* label is Mixed and the rear name decides, 32 + 1 and 29 - 1
C24_Witness ==
    /\ tune # None
    /\ args[1].tuneType = "Road" /\ args[1].weather = "Dry"
    /\ args[1].car.drivetrain = "RWD"
    /\ ChosenCompound(args[1], "Front Compound") = sRace
    /\ ChosenCompound(args[1], "Rear Compound") = sDrift
    /\ tune[1].tire_compound = sMixed
    /\ tune[1].tire_pressure_front = 33
    /\ tune[1].tire_pressure_rear = 28

-----------------------------------------------------------------------------
(* Unlisted-style specification: one call per behaviour with a style that  *)
(* matches no case of the switches.                                        *)

UnlistedStyles == {"Touge", "road"}

UnlistedDistributions == {None, Some(30), Some(40), Some(48), Some(50), Some(60), Some(65)}

UnlistedCars ==
    {Car(d, p, 3143, 800, None, wd) : d \in {"RWD", "FWD", "AWD"}, p \in {520, 700}, wd \in UnlistedDistributions}

UnlistedSelections ==
    {NoUpgrades, Sel("Tuning", "Final Drive", RatioText(410)), Sel("Tuning", "Final Drive", sWord),
     Sel("Platform", "Brakes", sRace) @@ Sel("Platform", "Weight Reduction", sRace)}

InitUnlisted ==
    /\ car \in UnlistedCars
    /\ upgrades \in UnlistedSelections
    /\ tuneType \in UnlistedStyles
    /\ weather \in Weathers
    /\ NoCallYet

NextUnlisted == CalculateTune

SpecUnlisted == InitUnlisted /\ [][NextUnlisted]_vars

\* the output of the same call with style 'Road'
RoadTune(a) == calculateTune(a.car, a.upgrades, "Road", a.weather)

\* C25 as claimed: with a style that is none of the 8, the output equals
\* the output for style 'Road' in every field.
C25_Original ==
    (tune # None /\ args[1].tuneType \notin Styles) => tune[1] = RoadTune(args[1])

\* nearest integer to (front distribution - 0.55) x 10 as the doubles give
\* it, the distribution taken as 0.55 when absent and held within 0.40..0.65
DistributionNudge(a) ==
    LET wd == a.car.weight_distribution_front
    IN IF wd = None THEN 0
       ELSE IF wd[1] <= 40 THEN -2
       ELSE IF wd[1] <= 50 THEN -1
       ELSE IF wd[1] <= 60 THEN 0
       ELSE 1

\* the selection carries a usable manual Final Drive
ManualFinalDrive(a) ==
    /\ HasUpgrade(a.upgrades, "Tuning", "Final Drive")
    /\ a.upgrades[<<"Tuning", "Final Drive">>] = RatioText(410)

\* C25, amended: with a style that is none of the 8, calculateTune raises
\* no error and its output equals the output for style 'Road' in every
\* field except final_drive and brake_bias: without a manual Final Drive
\* final_drive is 3.2 whatever the power-to-weight ratio, and brake_bias is
\* Road's plus the weight-distribution nudge.
C25_RoadExceptFinalDriveAndBias ==
    (tune # None /\ args[1].tuneType \notin Styles) =>
        LET a == args[1]
            road == RoadTune(a)
        IN /\ DOMAIN tune[1] = DOMAIN road
           /\ \A f \in DOMAIN road \ {"final_drive", "brake_bias"} : tune[1][f] = road[f]
           /\ tune[1].final_drive = (IF ManualFinalDrive(a) THEN road.final_drive ELSE 320)
           /\ tune[1].brake_bias = road.brake_bias + DistributionNudge(a)

\* style 'Touge' for a 700 hp car (0.22) with 65 % of its weight in front:
\* final_drive stays 3.2 where Road gives 3.0, and the bias is one above
C25_Witness ==
    /\ tune # None
    /\ args[1].tuneType = "Touge"
    /\ args[1].car.power_hp = 700
    /\ args[1].car.weight_distribution_front = Some(65)
    /\ args[1].upgrades = NoUpgrades
    /\ tune[1].final_drive = 320 /\ RoadTune(args[1]).final_drive = 300
    /\ tune[1].brake_bias = RoadTune(args[1]).brake_bias + 1

-----------------------------------------------------------------------------
(* Zero-weight specification: one call per behaviour for cars whose        *)
(* weight_lbs is 0, with and without power.                                *)

ZeroWeightCars == {Car(d, p, 0, 800, None, None) : d \in {"RWD", "FWD", "AWD"}, p \in {0, 400}}

ZeroWeightSelections ==
    {NoUpgrades, Sel("Platform", "Weight Reduction", sRace), Sel("Conversion", "Drivetrain Swap", sRWD)}

InitZeroWeight ==
    /\ car \in ZeroWeightCars
    /\ upgrades \in ZeroWeightSelections
    /\ tuneType \in Styles
    /\ weather \in Weathers
    /\ NoCallYet

NextZeroWeight == CalculateTune

SpecZeroWeight == InitZeroWeight /\ [][NextZeroWeight]_vars

\* final_drive of the style when every power-to-weight comparison is false
FinalDriveBelow(style) ==
    IF style = "Race" THEN 330
    ELSE IF style = "Drag" THEN 450
    ELSE IF style \in {"Street", "Road"} THEN 320
    ELSE IF style = "Drift" THEN 420
    ELSE IF style \in {"Rally", "Offroad"} THEN 380
    ELSE 300

\* final_drive of the style when every power-to-weight comparison is true
FinalDriveAbove(style) ==
    IF style = "Race" THEN 370
    ELSE IF style = "Drag" THEN 480
    ELSE IF style \in {"Street", "Road"} THEN 300
    ELSE FinalDriveBelow(style)

\* traction control level of the style's table after the weather step
TractionByWeather(a, bump) ==
    LET powered == IF bump THEN Min(TractionTable(a.tuneType) + 1, 2) ELSE TractionTable(a.tuneType)
    IN IF a.weather = "Wet" THEN Min(powered + 1, 2) ELSE powered

\* C26 as claimed: with weight_lbs 0 every power-to-weight comparison is
\* false for every power_hp >= 0, so final_drive takes the below-threshold
\* value of its style and the traction-control bump is not applied.
C26_Original ==
    (tune # None /\ args[1].car.weight_lbs = 0) =>
        /\ tune[1].final_drive = FinalDriveBelow(args[1].tuneType)
        /\ tune[1].traction_control_level = TractionByWeather(args[1], FALSE)

\* C26, amended: with weight_lbs 0 calculateTune raises no error; for
\* power_hp > 0 the ratio is infinite and every power-to-weight comparison
\* is true, so final_drive takes the above-threshold value of its style and
\* an RWD effective car gets the traction-control bump; only for power_hp 0
\* are the comparisons false.
C26_ZeroWeightComparisons ==
    (tune # None /\ args[1].car.weight_lbs = 0) =>
        LET a == args[1]
            above == a.car.power_hp > 0
        IN /\ tune[1].final_drive = (IF above THEN FinalDriveAbove(a.tuneType) ELSE FinalDriveBelow(a.tuneType))
           /\ tune[1].traction_control_level = TractionByWeather(a, above /\ SwappedDrivetrain(a) = "RWD")

\* a 400 hp RWD car of weight 0, Race and Dry: final_drive 3.7 and traction
\* control raised from 0 to 1
C26_Witness ==
    /\ tune # None
    /\ args[1].car.weight_lbs = 0 /\ args[1].car.power_hp = 400
    /\ args[1].car.drivetrain = "RWD"
    /\ args[1].tuneType = "Race" /\ args[1].weather = "Dry"
    /\ tune[1].final_drive = 370
    /\ tune[1].traction_control_level = 1

-----------------------------------------------------------------------------
(* Preset specification: one Street or Road call per behaviour.            *)

PresetStyles == {"Street", "Road"}

PresetCars ==
    {Car("RWD", 600, 3143, 800, None, None), Car("RWD", 700, 3143, 860, None, Some(48)),
     Car("AWD", 700, 3143, 900, Some(70), None), Car("FWD", 306, 3143, 700, None, Some(60))}

PresetSelections ==
    {NoUpgrades, FullSelection, Sel("Platform", "Springs", sRally) @@ Sel("Platform", "Weight Reduction", sRace),
     Sel("Tires", "Rear Compound", sRally) @@ Sel("Drivetrain", "Differential", sSport),
     Sel("Conversion", "Drivetrain Swap", sRWD) @@ Sel("Aero", "Rear Wing", sRace)}

InitPreset ==
    /\ car \in PresetCars
    /\ upgrades \in PresetSelections
    /\ tuneType \in PresetStyles
    /\ weather \in Weathers
    /\ NoCallYet

NextPreset == CalculateTune

SpecPreset == InitPreset /\ [][NextPreset]_vars

\* the other name of the Street/Road preset
OtherPresetName(style) == IF style = "Street" THEN "Road" ELSE "Street"

\* C27: for every car, upgrade selection and weather, calculateTune with
\* style 'Street' and with style 'Road' return outputs equal in every field,
\* the power-to-weight nudge of final_drive included.
C27_StreetEqualsRoad ==
    (tune # None /\ args[1].tuneType \in PresetStyles) =>
        tune[1] = calculateTune(args[1].car, args[1].upgrades, OtherPresetName(args[1].tuneType), args[1].weather)

\* a Road tune of the 700 hp car (0.22, above 0.2): final_drive nudged to
\* 3.0, as the Street tune of the same call
C27_Witness ==
    /\ tune # None
    /\ args[1].tuneType = "Road"
    /\ args[1].car.power_hp = 700 /\ args[1].upgrades = NoUpgrades
    /\ tune[1].final_drive = 300
    /\ calculateTune(args[1].car, args[1].upgrades, "Street", args[1].weather).final_drive = 300

-----------------------------------------------------------------------------
(* Tuner specification: the App component renders again and again, each    *)
(* render calling the tuner's calculateTune with the current formData,     *)
(* tune type and weather.                                                  *)

sPrefixed == <<" ", "2", ".", "5", "x">>

sTwin == <<"T", "w", "i", "n">>

TunerForms ==
    {NoUpgrades,
     Sel("Tuning", GearKey(1), RatioText(410)),
     Sel("Tuning", GearKey(1), sWord),
     Sel("Tuning", GearKey(6), RatioText(50)),
     Sel("Tuning", GearKey(1), RatioText(410)) @@ Sel("Tuning", GearKey(6), RatioText(50)),
     Sel("Tuning", GearKey(2), sPrefixed) @@ Sel("Tuning", "Final Drive", RatioText(410)),
     Sel("Tuning", "Final Drive", RatioText(975)) @@ Sel("Engine", "Turbo", sTwin) @@ Sel("Platform", "Springs", sRace),
     Sel("Platform", "Springs", sRally) @@ Sel("Aero", "Rear Wing", sRace) @@ Sel("Drivetrain", "Differential", sRace),
     Sel("Platform", "Springs", sDrift) @@ Sel("Engine", "Turbo", sNoTurbo)}

TunerTypes == {"Road", "Race", "Touge"}

InitTuner ==
    /\ car = gtrR35
    /\ upgrades = NoUpgrades
    /\ tuneType = "Road"
    /\ weather = "Dry"
    /\ NoCallYet

NextTuner == \E f \in TunerForms, t \in TunerTypes, w \in Weathers : TunerCalculateTune(f, t, w)

SpecTuner == InitTuner /\ [][NextTuner]_vars

\* formData carries a 'Gear i Ratio' entry the call takes: a text whose
\* leading number is above 0
GearEntrySupplied(formData, i) ==
    /\ HasUpgrade(formData, "Tuning", GearKey(i))
    /\ formData[<<"Tuning", GearKey(i)>>] \in {RatioText(410), RatioText(50), sPrefixed}

\* C28: the tuner's calculateTune leaves the module-level TUNE_PRESETS table
\* unchanged, so a call's result depends only on its own arguments: a gear
\* of the returned gear_ratios for which the call's formData supplies no
\* 'Gear N Ratio' entry is the gear of the tune type's preset as written in
\* the source, whatever entries earlier calls supplied.
C28_PresetsUnchanged ==
    /\ TUNE_PRESETS = TunePresetsAtLoad
    /\ legacy # None =>
          LET call == legacy[1]
              preset == TunePresetsAtLoad[PresetKey(TunePresetsAtLoad, call.tuneType)]
          IN \A i \in 1..6 :
                ~GearEntrySupplied(call.formData, i) => call.tune.gear_ratios[i] = preset.gear_ratios[i]

-----------------------------------------------------------------------------
(* Light-car specification: one call per behaviour for a 130 lb            *)
(* microcar and a 3143 lb car, with and without spring upgrades.           *)

LightCars == {Car("RWD", 4, 130, 100, Some(30), None), Car("AWD", 520, 3143, 800, None, None)}

LightSelections ==
    {NoUpgrades, Sel("Platform", "Springs", sRace), Sel("Platform", "Springs", sRally),
     Sel("Platform", "Springs", sRally) @@ Sel("Platform", "Weight Reduction", sRace)}

InitLight ==
    /\ car \in LightCars
    /\ upgrades \in LightSelections
    /\ tuneType \in Styles
    /\ weather \in Weathers
    /\ NoCallYet

NextLight == CalculateTune

SpecLight == InitLight /\ [][NextLight]_vars

\* C29: for every car with positive weight_lbs, every style, weather and
\* upgrade selection, Springs 'Rally' and the Weight Reduction tiers
\* included, spring_front and spring_rear of the output are strictly
\* positive.
C29_SpringsPositive ==
    (tune # None /\ args[1].car.weight_lbs > 0) =>
        /\ tune[1].spring_front > 0
        /\ tune[1].spring_rear > 0

====
